---- MODULE Spec2Model ----
(***************************************************************************)
(* The LVM thin-provisioning storage driver of lxd/storage_lvm.go as a     *)
(* state machine.  The state is the backend (logical volumes, thin pools,  *)
(* what the filesystems of the volumes hold), the host filesystem (the     *)
(* link records and directories the host shows, what the mounts hide, the  *)
(* mount table), the two stored configuration keys, the driver's memory    *)
(* (its bound volume group and the fields of storageShared) and the calls  *)
(* in flight.  Every Go function is an operator from a world record to a   *)
(* result record [w, err].                                                 *)
(*                                                                         *)
(* The driver holds no lock and blocks at every external call, so a call   *)
(* of an operation is made one step at a time: a step is one external      *)
(* call (one system call of a library function that makes several), one    *)
(* read of the driver's memory or one write of it.  The action             *)
(* of an operation begins a call and makes its first step, Continue makes  *)
(* the next step of a call in flight, and the steps of the calls in        *)
(* flight interleave.  The same operator, applied to a world that is not   *)
(* stepped, gives the handler made as a whole.                             *)
(*                                                                         *)
(* Strings that the code inspects character by character (container       *)
(* names, volume names, paths, command output) are sequences of           *)
(* one-character strings; multi-character tokens ("containers", ".lv",     *)
(* "rw") stand for text the code never looks inside.                       *)
(*                                                                         *)
(* A fault is the source line of an external call (exec.Command, os.*,     *)
(* syscall.*, a read or write of the stored configuration, a listing of    *)
(* the database, a collaborator's method) that is made to fail although    *)
(* its preconditions hold.  The k-th nested ContainerRename adds 1000*k.   *)
(* shared.PathExists reports no error and is not made to fail.             *)
(*                                                                         *)
(* The backend refuses a volume name that holds a slash, a command on a    *)
(* device that is not there, and the removal or formatting of a volume     *)
(* that is mounted.  A volume is mounted only when it has a filesystem,    *)
(* and not where it is what is mounted already.  A mount hides what the    *)
(* host has below the mount point and shows what the volume holds; what    *)
(* is made below a mount point is made in the volume.  os.MkdirAll and     *)
(* os.RemoveAll are the sequences of system calls that the library makes,  *)
(* each a step: the first leaves the directories it made when a later      *)
(* mkdir fails, the second has removed what lay below a directory when     *)
(* the removal of the directory itself fails, as it does for a mount       *)
(* point.                                                                  *)
(*                                                                         *)
(* The functions that touch no state (storageLVMThinpoolExists on the      *)
(* probe's outcome, containerNameToLVName) have specifications of their    *)
(* own, which draw the arguments (given) and record the result (got).     *)
(***************************************************************************)
EXTENDS Integers, Sequences, FiniteSets, Bags, TLC

VARIABLES lvs, pools, links, dirs, mounts, covered, inside, cfgVg, cfgPool, vgName,
          storageShared,
          faults, nops, given, got, calls, overlapped

vars == <<lvs, pools, links, dirs, mounts, covered, inside, cfgVg, cfgPool, vgName,
          storageShared,
          faults, nops, given, got, calls, overlapped>>

\* Bound: how many external calls may be made to fail over one run.
MaxFaults == 2

\* Bound: how many calls of operations one run makes.
MaxOps == 3

\* Bound: how many calls a run makes in which calls are in flight together.
MaxOverlapping == 2

\* Bound: how many calls are in flight at a time.
MaxCallers == 2

\* ------------------------------------------------------------------------
\* Strings

storageLvmDefaultThinPoolName == "LXDPool"

SnapshotDelimiter == "/"

Range(s) == {s[i] : i \in 1..Len(s)}

\* strings.Contains(s, ch) for a one-character ch
Contains(s, ch) == ch \in Range(s)

\* strings.Replace(s, old, new, -1) for a one-character old
RECURSIVE Replace(_, _, _)
Replace(s, old, new) ==
    IF s = <<>> THEN <<>>
    ELSE (IF Head(s) = old THEN new ELSE <<Head(s)>>) \o Replace(Tail(s), old, new)

\* unicode.IsSpace: the white space of Unicode, the characters that have
\* no escape written by their code point
WhiteSpace ==
    {" ", "\t", "\n", "\f", "\r", "U+000B", "U+0085", "U+00A0", "U+1680",
     "U+2000", "U+2001", "U+2002", "U+2003", "U+2004", "U+2005", "U+2006",
     "U+2007", "U+2008", "U+2009", "U+200A", "U+2028", "U+2029", "U+202F",
     "U+205F", "U+3000"}

\* strings.TrimSpace(s)
RECURSIVE TrimLeft(_)
TrimLeft(s) == IF s # <<>> /\ Head(s) \in WhiteSpace THEN TrimLeft(Tail(s)) ELSE s

RECURSIVE TrimRight(_)
TrimRight(s) ==
    IF s # <<>> /\ s[Len(s)] \in WhiteSpace
    THEN TrimRight(SubSeq(s, 1, Len(s) - 1)) ELSE s

TrimSpace(s) == TrimRight(TrimLeft(s))

\* strings.Split(s, sep) for a one-character sep
RECURSIVE Split(_, _)
Split(s, sep) ==
    LET S == {i \in 1..Len(s) : s[i] = sep}
        k == CHOOSE i \in S : \A j \in S : i <= j
    IN  IF S = {} THEN <<s>>
        ELSE <<SubSeq(s, 1, k - 1)>> \o Split(SubSeq(s, k + 1, Len(s)), sep)

\* strings.SplitAfterN(s, sep, 2) for a one-character sep
SplitAfterN2(s, sep) ==
    LET S == {i \in 1..Len(s) : s[i] = sep}
        k == CHOOSE i \in S : \A j \in S : i <= j
    IN  IF S = {} THEN <<s>>
        ELSE <<SubSeq(s, 1, k), SubSeq(s, k + 1, Len(s))>>

\* strings.HasPrefix(s, ch) for a one-character ch
HasPrefix(s, ch) == s # <<>> /\ Head(s) = ch

\* containerNameToLVName with the hyphens dropped instead of doubled
containerNameToLVName_HyphenDropped(containerName) ==
    LET lvName == Replace(containerName, "-", <<>>)
    IN  Replace(lvName, SnapshotDelimiter, <<"-">>)

\* containerNameToLVName without the doubling of hyphens
containerNameToLVName_NoEscape(containerName) ==
    Replace(containerName, SnapshotDelimiter, <<"-">>)

containerNameToLVName(containerName) ==
    LET lvName == Replace(containerName, "-", <<"-", "-">>)
    IN  Replace(lvName, SnapshotDelimiter, <<"-">>)

\* ------------------------------------------------------------------------
\* Paths

\* shared.VarPath(dir, rest): a path below the daemon's var directory
VarPath(dir, rest) == <<"/", dir, "/">> \o rest

\* shared.VarPath(dir): a namespace of the daemon's var directory
VarDir(dir) == <<"/", dir>>

\* fmt.Sprintf("%s.lv", p)
DotLv(p) == Append(p, ".lv")

LastSlash(p) ==
    LET S == {i \in 1..Len(p) : p[i] = "/"}
    IN  IF S = {} THEN 0 ELSE CHOOSE i \in S : \A j \in S : j <= i

\* filepath.Base
Base(p) == SubSeq(p, LastSlash(p) + 1, Len(p))

\* filepath.Dir
Dir(p) == SubSeq(p, 1, LastSlash(p) - 1)

\* the namespaces below the var directory always exist
TopDirs == {<<"/", "containers">>, <<"/", "snapshots">>, <<"/", "images">>}

IsPrefix(p, q) == Len(p) <= Len(q) /\ SubSeq(q, 1, Len(p)) = p

\* p lies strictly below directory d
Below(d, p) == IsPrefix(Append(d, "/"), p)

\* container.IsSnapshot(): snapshots are the names holding the delimiter
IsSnapshot(name) == Contains(name, SnapshotDelimiter)

\* containerPath(name, isSnapshot)
containerPath(name, isSnapshot) ==
    IF isSnapshot THEN VarPath("snapshots", name) ELSE VarPath("containers", name)

\* container.Path()
Path(name) == containerPath(name, IsSnapshot(name))

\* the well-known link path of a container or snapshot, and of an image
LinkOf(name) == DotLv(Path(name))
ImageLinkOf(fp) == VarPath("images", DotLv(fp))

\* ------------------------------------------------------------------------
\* Every Go function is an operator from a world (see below) to a result
\* [w |-> world, err |-> error], err = "" for nil.  Statements are sequenced
\* with Let, Then and Must so that every call is evaluated once, in the order
\* of the code.

R(w, err) == [w |-> w, err |-> err]

\* K of the value of e
Let(e, K(_)) == CHOOSE y \in {K(x) : x \in {e}} : TRUE

\* the result e if it is an error (if err != nil { return err }), else K of its world
Then(e, K(_)) == Let(e, LAMBDA r : IF r.err # "" THEN r ELSE K(r.w))

\* the result of the external call e, with the error msg if it failed
Must(e, msg) == Let(e, LAMBDA r : R(r.w, IF r.ok THEN "" ELSE msg))

\* the result e, its error (if any) replaced by msg
Wrap(e, msg) == Let(e, LAMBDA r : IF r.err # "" THEN R(r.w, msg) ELSE r)

\* ------------------------------------------------------------------------
\* The world outside the driver: backend commands, host filesystem calls,
\* the daemon's stored configuration and database.  A world is a record of
\* the state
\*   lvs, pools, links, dirs, mounts, covered, inside, cfgVg, cfgPool, vgName,
\*   storageShared,
\* of what the running call has done so far,
\*   log   the sequence of <<call, argument, succeeded>>,
\*   hit   the faults that struck in it,
\*   ran   the lines whose call succeeded in it since the last fault struck,
\*   busy  the volumes whose removal it issued while they were mounted,
\*   ret   what the last function that returns a value beside its error
\*         returned,
\*   listed  how many entries the longest listing of a directory in it gave,
\* and, when the call is made one external call at a time (step),
\*   trace the outcomes [ok, val] of the external calls it has made and of
\*         the reads and writes of the driver's memory it has done,
\*   pos   how many of these the evaluation has passed,
\*   fail  whether the external call made in this step is made to fail,
\*   live  whether this step's external call, read or write has been made,
\*   new   the outcome this step adds to trace,
\*   more  whether the call has something left to do after this step.
\* A step of a call is one external call, one read of the driver's memory
\* or one write of it.

\* What an external call returns beside its error, one field per kind: a
\* string (text), a boolean (flag), a path or the text a command printed
\* (parts), a list of names (names), an exit status (exit), the entries of
\* a directory in the order its listing gave them (entries).
NoValue ==
    [text |-> "", flag |-> FALSE, parts |-> <<>>, names |-> <<>>, exit |-> 0,
     entries |-> <<>>]
Text(s) == [NoValue EXCEPT !.text = s]
Flag(b) == [NoValue EXCEPT !.flag = b]
Parts(p) == [NoValue EXCEPT !.parts = p]
NamesListed(l) == [NoValue EXCEPT !.names = l]
Entries(l) == [NoValue EXCEPT !.entries = l]
Exited(n, output) == [NoValue EXCEPT !.exit = n, !.parts = output]

\* no argument of an external call
NoArg == <<>>

\* the volume groups the host has
ExistingVGs == {"vg0"}

\* what the backend accepts as the name of a logical volume: no slash
ValidLVName(name) == name # <<>> /\ ~Contains(name, "/")

Note(w, logged, what, arg, pre, line, F) ==
    [w EXCEPT !.log = IF logged THEN Append(@, <<what, arg, pre /\ line \notin F>>)
                      ELSE @,
              !.hit = IF pre /\ line \in F THEN @ \cup {line} ELSE @,
              !.ran = IF ~pre THEN @
                      ELSE IF line \in F THEN {} ELSE @ \cup {line}]

\* called a function of the driver (no outcome of its own)
Enter(w, fn, arg) == [w EXCEPT !.log = Append(@, <<fn, arg, TRUE>>)]

\* a function returns val beside its error
Return(w, val) == [w EXCEPT !.ret = val]

\* the call what of the driver's code ended with the outcome ok
Logged(w, what, arg, ok) == [w EXCEPT !.log = Append(@, <<what, arg, ok>>)]

\* An external call under the fault number line (the source line of the
\* call, see the fault numbers of the library calls below): pre tells
\* whether it succeeds when no fault strikes it, val is what it returns,
\* done the world its success leaves and undone the world it leaves when it
\* fails of itself; logged tells whether it is a call of the driver's code,
\* which the log records, or a system call that a library function makes.
\* Made as a whole the call suffers the faults F.  Made step by step, an
\* external call the trace has is answered from the trace, the first one
\* beyond the trace is made now, and one after that is left for a later
\* step.
ExtAs(w, logged, what, arg, line, F, pre, val, done, undone) ==
    IF ~w.step
    THEN [w |-> Note(IF ~pre THEN undone ELSE IF line \notin F THEN done ELSE w,
                     logged, what, arg, pre, line, F),
          ok |-> pre /\ line \notin F, val |-> val]
    ELSE IF w.pos < Len(w.trace)
    THEN [w |-> [w EXCEPT !.pos = @ + 1,
                          !.log = IF logged
                                  THEN Append(@, <<what, arg, w.trace[w.pos + 1].ok>>)
                                  ELSE @],
          ok |-> w.trace[w.pos + 1].ok, val |-> w.trace[w.pos + 1].val]
    ELSE IF ~w.live
    THEN [w |-> [(IF ~pre THEN undone ELSE IF ~w.fail THEN done ELSE w)
                    EXCEPT !.pos = @ + 1, !.live = TRUE,
                           !.log = IF logged
                                   THEN Append(@, <<what, arg, pre /\ ~w.fail>>)
                                   ELSE @,
                           !.hit = IF pre /\ w.fail THEN {line} ELSE {},
                           !.new = Append(@, [ok |-> pre /\ ~w.fail, val |-> val])],
          ok |-> pre /\ ~w.fail, val |-> val]
    ELSE [w |-> [w EXCEPT !.more = TRUE], ok |-> FALSE, val |-> val]

\* an external call of the driver's code that leaves part of its work done
\* when it fails
ExtLeaving(w, what, arg, line, F, pre, val, done, undone) ==
    ExtAs(w, TRUE, what, arg, line, F, pre, val, done, undone)

\* an external call whose failure leaves the world as it was
Ext(w, what, arg, line, F, pre, val, done) ==
    ExtLeaving(w, what, arg, line, F, pre, val, done, w)

\* a system call that a library function makes (os.MkdirAll, os.RemoveAll)
Syscall(w, line, F, pre, val, done) ==
    ExtAs(w, FALSE, "", NoArg, line, F, pre, val, done, w)

\* An external call that reads the host and has no error to return
\* (shared.PathExists): it is a step of its own and no fault strikes it.
Probe(w, what, arg, val) ==
    IF ~w.step
    THEN [w |-> [w EXCEPT !.log = Append(@, <<what, arg, TRUE>>)], val |-> val]
    ELSE IF w.pos < Len(w.trace)
    THEN [w |-> [w EXCEPT !.pos = @ + 1, !.log = Append(@, <<what, arg, TRUE>>)],
          val |-> w.trace[w.pos + 1].val]
    ELSE IF ~w.live
    THEN [w |-> [w EXCEPT !.pos = @ + 1, !.live = TRUE,
                          !.log = Append(@, <<what, arg, TRUE>>),
                          !.new = Append(@, [ok |-> TRUE, val |-> val])],
          val |-> val]
    ELSE [w |-> [w EXCEPT !.more = TRUE], val |-> val]

\* A read of the driver's memory, or a read of the host by a library
\* function (stat, lstat, the listing of a directory), a step of its own:
\* val is what it finds now.  The call proceeds on what it read, whatever is
\* there later.
Peek(w, val) ==
    IF ~w.step THEN [w |-> w, val |-> val]
    ELSE IF w.pos < Len(w.trace)
    THEN [w |-> [w EXCEPT !.pos = @ + 1], val |-> w.trace[w.pos + 1].val]
    ELSE IF ~w.live
    THEN [w |-> [w EXCEPT !.pos = @ + 1, !.live = TRUE,
                          !.new = Append(@, [ok |-> TRUE, val |-> val])],
          val |-> val]
    ELSE [w |-> [w EXCEPT !.more = TRUE], val |-> val]

\* A write of the driver's memory, a step of its own: done is the world it
\* leaves.
Poke(w, done) ==
    IF ~w.step THEN done
    ELSE IF w.pos < Len(w.trace) THEN [w EXCEPT !.pos = @ + 1]
    ELSE IF ~w.live
    THEN [done EXCEPT !.pos = @ + 1, !.live = TRUE,
                      !.new = Append(@, [ok |-> TRUE, val |-> NoValue])]
    ELSE [w EXCEPT !.more = TRUE]

\* ------------------------------------------------------------------------
\* The host's tree.  links and dirs are the paths the host shows.  A mount
\* hides what the host has below the mount point (covered keeps it) and
\* shows there what the filesystem of the mounted volume holds; inside is
\* what the filesystems of the volumes hold, <<volume, kind, path below the
\* root of the filesystem>>, the entry of kind "fs" telling that the volume
\* has a filesystem.  The mount points of the driver do not lie below one
\* another.

DirExists(w, p) == p \in TopDirs \/ p \in w.dirs

\* the volume is mounted somewhere
VolumeMounted(w, lvname) == \E i \in 1..Len(w.mounts) : w.mounts[i][2] = lvname

IsMounted(w, p) == \E i \in 1..Len(w.mounts) : w.mounts[i][1] = p

\* the mount table without its topmost mount at p
DropMount(ms, p) ==
    LET S == {i \in 1..Len(ms) : ms[i][1] = p}
        k == CHOOSE i \in S : \A j \in S : j <= i
    IN  IF S = {} THEN ms
        ELSE SubSeq(ms, 1, k - 1) \o SubSeq(ms, k + 1, Len(ms))

\* the volume of the topmost mount at p
TopVolume(w, p) ==
    LET S == {i \in 1..Len(w.mounts) : w.mounts[i][1] = p}
    IN  w.mounts[CHOOSE i \in S : \A j \in S : j <= i][2]

\* the mount points
MountPoints(w) == {w.mounts[i][1] : i \in 1..Len(w.mounts)}

\* the mount points q lies below
MountsAbove(w, q) == {p \in MountPoints(w) : Below(p, q)}

\* q lies in the host's own filesystem
OnHost(w, q) == MountsAbove(w, q) = {}

\* the mount point whose volume holds q
MountOf(w, q) == CHOOSE p \in MountsAbove(w, q) : TRUE

\* the filesystem q lies in: a volume, or <<>> for the host's own
FilesystemOf(w, q) == IF OnHost(w, q) THEN <<>> ELSE TopVolume(w, MountOf(w, q))

\* q as a path below the mount point p
Rel(p, q) == SubSeq(q, Len(p) + 1, Len(q))

\* the paths of the given kind that the mounted volumes show
Shown(w, kind) ==
    UNION {{p \o e[3] : e \in {x \in w.inside : x[2] = kind /\ x[1] = TopVolume(w, p)}} :
               p \in MountPoints(w)}

\* the tree the host shows: its own below no mount point, and what the
\* mounted volumes hold
Refresh(w) ==
    [w EXCEPT !.links = {l \in @ : OnHost(w, l)} \cup Shown(w, "link"),
              !.dirs  = {d \in @ : OnHost(w, d)} \cup Shown(w, "dir")]

\* the entries of the given kind at the paths of Q that lie in volumes
Held(w, Q, kind) ==
    {<<TopVolume(w, MountOf(w, q)), kind, Rel(MountOf(w, q), q)>> :
         q \in {x \in Q : ~OnHost(w, x)}}

\* the links L and the directories D are made
Put(w, L, D) ==
    Refresh([w EXCEPT !.links = @ \cup {q \in L : OnHost(w, q)},
                      !.dirs = @ \cup {q \in D : OnHost(w, q)},
                      !.inside = @ \cup Held(w, L, "link") \cup Held(w, D, "dir")])

\* what is at the paths E is removed
Drop(w, E) ==
    Refresh([w EXCEPT !.links = @ \ E,
                      !.dirs = @ \ E,
                      !.inside = @ \ (Held(w, E, "link") \cup Held(w, E, "dir"))])

\* the volume has a filesystem
HasFilesystem(w, lvname) == <<lvname, "fs", <<>>>> \in w.inside

\* the device /dev/vg/lvname is there
DeviceExists(w, vg, lvname) == vg \in ExistingVGs /\ lvname \in w.lvs

\* something exists at p
Exists(w, p) == DirExists(w, p) \/ p \in w.links

\* p is a directory that holds nothing
IsEmptyDir(w, p) ==
    /\ DirExists(w, p)
    /\ \A q \in w.dirs \cup w.links : ~Below(p, q)

\* s.vgName as a method reads it
VgName(w) == Let(Peek(w, Text(w.vgName)), LAMBDA r : [w |-> r.w, val |-> r.val.text])

\* fmt.Sprintf("/dev/%s/%s", vg, lvname): the device path of a volume
DevPath(vg, lvname) == <<vg, lvname>>

\* exec.Command("vgdisplay", "-s", vgName)
Vgdisplay(w, vg, F) ==
    Ext(w, "vgdisplay", <<vg>>, 23, F, vg \in ExistingVGs, NoValue, w)

\* exec.Command("vgs", "--noheadings", "-o", "lv_attr", vg/pool): the exit
\* status and the attribute string printed
Vgs(w, vg, pool, F) ==
    LET found == vg \in ExistingVGs /\ pool \in w.pools
    IN  Let(Ext(w, "vgs", <<vg, pool>>, 33, F, TRUE,
                IF found THEN Exited(0, <<" ", " ", "t", "w", "i", "\n">>)
                ELSE Exited(5, <<>>),
                w),
            LAMBDA r : [w |-> r.w,
                        exit |-> IF r.ok THEN r.val.exit ELSE 1,
                        output |-> IF r.ok THEN r.val.parts ELSE <<>>])

\* exec.Command("lvcreate", "--poolmetadatasize", "1G", "-l", "100%FREE",
\*              "--thinpool", vg/pool)
LvcreatePool(w, vg, pool, F) ==
    Ext(w, "lvcreate-thinpool", <<pool>>, 662, F,
        vg \in ExistingVGs /\ pool \notin w.pools, NoValue,
        [w EXCEPT !.pools = @ \cup {pool}])

\* exec.Command("lvcreate", "--thin", "-n", lvname, "--virtualsize", size, vg/pool)
LvcreateThin(w, vg, lvname, pool, F) ==
    Ext(w, "lvcreate-thin", lvname, 701, F,
        /\ vg \in ExistingVGs
        /\ pool \in w.pools
        /\ lvname \notin w.lvs
        /\ ValidLVName(lvname),
        NoValue,
        [w EXCEPT !.lvs = @ \cup {lvname}])

\* exec.Command("mkfs.ext4", "-E", ..., lvpath): refused for a device that
\* is mounted; the new filesystem holds the directory lost+found
Mkfs(w, vg, lvname, F) ==
    Ext(w, "mkfs", lvname, 714, F,
        DeviceExists(w, vg, lvname) /\ ~VolumeMounted(w, lvname), NoValue,
        [w EXCEPT !.inside = {e \in @ : e[1] # lvname}
                                 \cup {<<lvname, "fs", <<>>>>,
                                       <<lvname, "dir", <<"/", "lost+found">>>>}])

\* exec.Command("lvremove", "-f", vg/lvname): refused for a volume whose
\* filesystem is mounted
Lvremove(w, vg, lvname, F) ==
    LET w0 == IF ~w.step /\ VolumeMounted(w, lvname)
              THEN [w EXCEPT !.busy = @ \cup {lvname}] ELSE w
    IN  Ext(w0, "lvremove", lvname, 728, F,
            vg \in ExistingVGs /\ lvname \in w.lvs /\ ~VolumeMounted(w, lvname),
            NoValue,
            [w0 EXCEPT !.lvs = @ \ {lvname},
                       !.inside = {e \in @ : e[1] # lvname}])

\* exec.Command("lvcreate", "-kn", "-n", lvname, "-s", /dev/vg/origlvname)
LvcreateSnapshot(w, vg, lvname, origlvname, F) ==
    Ext(w, "lvcreate-snapshot", lvname, 738, F,
        /\ vg \in ExistingVGs
        /\ origlvname \in w.lvs
        /\ lvname \notin w.lvs
        /\ ValidLVName(lvname),
        NoValue,
        [w EXCEPT !.lvs = @ \cup {lvname},
                  !.inside = @ \cup {<<lvname, e[2], e[3]>> :
                                         e \in {x \in @ : x[1] = origlvname}}])

\* exec.Command("lvchange", "-ay", ["-pr",] snapshotFullName)
Lvchange(w, vg, lvname, readonly, F) ==
    Ext(w, IF readonly THEN "lvchange-ro" ELSE "lvchange-rw", lvname,
        IF readonly THEN 751 ELSE 753, F, DeviceExists(w, vg, lvname), NoValue, w)

\* the mount table when the volume oldName gets the name newName
RECURSIVE Remounted(_, _, _)
Remounted(ms, oldName, newName) ==
    IF ms = <<>> THEN <<>>
    ELSE <<<<Head(ms)[1], IF Head(ms)[2] = oldName THEN newName ELSE Head(ms)[2]>>>>
             \o Remounted(Tail(ms), oldName, newName)

\* exec.Command("lvrename", vg, oldName, newName); k is the nesting depth
Lvrename(w, vg, oldName, newName, k, F) ==
    Ext(w, "lvrename", newName, 768 + 1000 * k, F,
        /\ vg \in ExistingVGs
        /\ oldName \in w.lvs
        /\ newName \notin w.lvs
        /\ ValidLVName(newName),
        NoValue,
        [w EXCEPT !.lvs = (@ \ {oldName}) \cup {newName},
                  !.inside = {<<IF e[1] = oldName THEN newName ELSE e[1], e[2], e[3]>> :
                                  e \in @},
                  !.mounts = Remounted(@, oldName, newName)])

\* os.Stat(p) and os.Lstat(p): what is at p
StatOf(w, p) ==
    IF DirExists(w, p) THEN "dir" ELSE IF p \in w.links THEN "other" ELSE "none"

\* The library functions os.MkdirAll and os.RemoveAll make several system
\* calls, each a step.  The fault number of a system call that creates or
\* removes the path the driver named is the source line of the library
\* call; that of one about another path is the line plus 100000*k, k
\* counting the levels above the named path (os.MkdirAll) or the entries
\* of the named directory (os.RemoveAll).

\* os.MkdirAll(p, mode) from the level k above the path the driver named:
\* done if os.Stat finds a directory, else the parent is made in the same
\* way and then p by mkdir; if the mkdir fails, os.Lstat tells whether the
\* directory is there all the same
RECURSIVE MkdirAllFrom(_, _, _, _, _)
MkdirAllFrom(w, p, line, k, F) ==
    Let(Peek(w, Text(StatOf(w, p))), LAMBDA st :
        IF st.val.text = "dir" THEN [w |-> st.w, ok |-> TRUE]
        ELSE IF st.val.text = "other" THEN [w |-> st.w, ok |-> FALSE]
        ELSE
    Let(IF LastSlash(p) > 1 THEN MkdirAllFrom(st.w, Dir(p), line, k + 1, F)
        ELSE [w |-> st.w, ok |-> TRUE],
        LAMBDA up :
        IF ~up.ok THEN up
        ELSE
    Let(Syscall(up.w, line + 100000 * k, F,
                DirExists(up.w, Dir(p)) /\ ~Exists(up.w, p), NoValue,
                Put(up.w, {}, {p})),
        LAMBDA mk :
        IF mk.ok THEN [w |-> mk.w, ok |-> TRUE]
        ELSE Let(Peek(mk.w, Text(StatOf(mk.w, p))), LAMBDA ls :
                 [w |-> ls.w, ok |-> ls.val.text = "dir"]))))

\* os.MkdirAll(p, mode)
MkdirAll(w, p, line, F) ==
    Let(MkdirAllFrom(w, p, line, 0, F), LAMBDA r :
        [w |-> Logged(r.w, "mkdir", p, r.ok), ok |-> r.ok, val |-> NoValue])

\* the names ioutil.TempDir gives the directories it makes
TempNames == <<"tmp_lv_mnt1", "tmp_lv_mnt2", "tmp_lv_mnt3", "tmp_lv_mnt4">>

\* ioutil.TempDir(dir, "tmp_lv_mnt"): a new directory below dir under a name
\* nothing has; it returns the path
TempDir(w, dir, line, F) ==
    LET free == {i \in 1..Len(TempNames) : ~Exists(w, dir \o <<"/", TempNames[i]>>)}
        i == CHOOSE j \in free : \A k \in free : j <= k
        p == IF free = {} THEN <<>> ELSE dir \o <<"/", TempNames[i]>>
    IN  Let(Ext(w, "tempdir", dir, line, F, free # {}, Parts(p),
                Put(w, {}, {p})),
            LAMBDA r : [w |-> r.w, ok |-> r.ok, val |-> r.val.parts])

\* os.Symlink(target, dst)
Symlink(w, dst, line, F) ==
    Ext(w, "symlink", dst, line, F,
        dst \notin w.links /\ dst \notin w.dirs /\ DirExists(w, Dir(dst)),
        NoValue, Put(w, {dst}, {}))

\* what the host lets os.Remove remove: a link, or a directory that is
\* empty and no mount point
Removable(w, p) ==
    p \in w.links \/ (p \in w.dirs /\ IsEmptyDir(w, p) /\ ~IsMounted(w, p))

\* os.Remove(p)
Remove(w, p, line, F) ==
    Ext(w, "remove", p, line, F, Removable(w, p), NoValue, Drop(w, {p}))

\* the entries of the directory p
Children(w, p) == {x \in w.links \cup w.dirs : Dir(x) = p}

\* the elements of S one after the other
RECURSIVE InOrder(_)
InOrder(S) ==
    IF S = {} THEN <<>>
    ELSE LET x == CHOOSE y \in S : TRUE IN <<x>> \o InOrder(S \ {x})

\* n!
RECURSIVE Factorial(_)
Factorial(n) == IF n <= 1 THEN 1 ELSE n * Factorial(n - 1)

\* The order in which a listing gives the entries of a directory depends on
\* the filesystem and on the history of the directory: any order is
\* possible.  The orders of n entries are numbered 0..n!-1.
Orders(n) == 0..(Factorial(n) - 1)

\* the elements of S in the order numbered o: the first is chosen by o
\* among the elements, the rest go on in the same way
RECURSIVE Listing(_, _)
RECURSIVE ListingFrom(_, _, _)
Listing(S, o) ==
    IF S = {} THEN <<>>
    ELSE ListingFrom(InOrder(S)[(o % Cardinality(S)) + 1], S, o)
ListingFrom(x, S, o) == <<x>> \o Listing(S \ {x}, o \div Cardinality(S))

\* A run made as a whole is given the order o > 0 of its listings as the
\* number -o among its faults F (a fault is a source line, above 0); a
\* listing made in a step gives the order numbered 0, and the step puts the
\* entries in any order.
FaultsOf(F) == {x \in F : x > 0}
OrderOf(F) == IF \E x \in F : x < 0 THEN -(CHOOSE x \in F : x < 0) ELSE 0

\* File.Readdirnames(-1) on the directory p, as os.RemoveAll calls it: the
\* names of the entries of p
Readdirnames(w, p, F) == Peek(w, Entries(Listing(Children(w, p), OrderOf(F))))

\* the run has listed entries
Listed(w, entries) ==
    IF Len(entries) > w.listed THEN [w EXCEPT !.listed = Len(entries)] ELSE w

\* os.RemoveAll(p), p being the path the driver named (k = 0) or lying in
\* its k-th entry: os.Remove(p); if that fails for a directory, the
\* entries that the listing of p gives are removed in the same way, one
\* after the other, and then os.Remove(p) is made again, whose outcome is
\* the outcome of the whole
RECURSIVE RemoveAllFrom(_, _, _, _, _)
RECURSIVE RemoveEach(_, _, _, _, _, _)
RemoveAllFrom(w, p, line, k, F) ==
    Let(Syscall(w, line + 100000 * k, F, Removable(w, p), Flag(~Exists(w, p)),
                Drop(w, {p})),
        LAMBDA first :
        IF first.ok \/ first.val.flag THEN [w |-> first.w, ok |-> TRUE]
        ELSE
    Let(Peek(first.w, Text(StatOf(first.w, p))), LAMBDA ls :
        IF ls.val.text = "none" THEN [w |-> ls.w, ok |-> TRUE]
        ELSE IF ls.val.text = "other" THEN [w |-> ls.w, ok |-> FALSE]
        ELSE
    Let(Readdirnames(ls.w, p, F), LAMBDA rd :
    Let(RemoveEach(Listed(rd.w, rd.val.entries), rd.val.entries, 1, line, k, F),
        LAMBDA each :
    Let(Syscall(each.w, line + 100000 * k, F, Removable(each.w, p),
                Flag(~Exists(each.w, p)), Drop(each.w, {p})),
        LAMBDA last :
        [w |-> last.w, ok |-> last.ok \/ last.val.flag])))))

\* the loop of os.RemoveAll over the entries listed, from the i-th on
RemoveEach(w, entries, i, line, k, F) ==
    IF i > Len(entries) THEN [w |-> w, ok |-> TRUE]
    ELSE Let(RemoveAllFrom(w, entries[i], line, IF k = 0 THEN i ELSE k, F), LAMBDA r :
             RemoveEach(r.w, entries, i + 1, line, k, F))

\* os.RemoveAll(p)
RemoveAll(w, p, line, F) ==
    Let(RemoveAllFrom(w, p, line, 0, F), LAMBDA r :
        [w |-> Logged(r.w, "removeall", p, r.ok), ok |-> r.ok, val |-> NoValue])

\* os.Rename(oldPath, newPath) of a link, within one filesystem
Rename(w, oldPath, newPath, line, F) ==
    Ext(w, "rename", newPath, line, F,
        /\ oldPath \in w.links
        /\ newPath \notin w.dirs
        /\ DirExists(w, Dir(newPath))
        /\ FilesystemOf(w, oldPath) = FilesystemOf(w, newPath),
        NoValue, Put(Drop(w, {oldPath}), {newPath}, {}))

\* exec.Command("mount", "-o", "discard", lvpath, p): what the host has
\* below p is hidden, what the volume holds is shown there; refused when
\* the volume is what is mounted at p already
Mount(w, lvpath, p, line, F) ==
    Ext(w, "mount", p, line, F,
        /\ DeviceExists(w, lvpath[1], lvpath[2])
        /\ HasFilesystem(w, lvpath[2])
        /\ DirExists(w, p)
        /\ ~(IsMounted(w, p) /\ TopVolume(w, p) = lvpath[2]),
        NoValue,
        LET hid(S) == {x \in S : Below(p, x) /\ OnHost(w, x)}
        IN  Refresh([w EXCEPT !.mounts = Append(@, <<p, lvpath[2]>>),
                              !.covered = @ \cup {<<"link", x>> : x \in hid(w.links)}
                                            \cup {<<"dir", x>> : x \in hid(w.dirs)},
                              !.links = @ \ hid(w.links),
                              !.dirs = @ \ hid(w.dirs)]))

\* syscall.Unmount(p, 0): the topmost mount at p goes, and with it what its
\* volume showed; when it was the last one at p, what the host has below p
\* is shown again
Unmount(w, p, line, F) ==
    Ext(w, "umount", p, line, F, IsMounted(w, p), NoValue,
        LET ms == DropMount(w.mounts, p)
            last == \A i \in 1..Len(ms) : ms[i][1] # p
            back == IF last THEN {e \in w.covered : Below(p, e[2])} ELSE {}
        IN  Refresh([w EXCEPT !.mounts = ms,
                              !.covered = @ \ back,
                              !.links = {l \in @ : ~Below(p, l)}
                                            \cup {e[2] : e \in {x \in back : x[1] = "link"}},
                              !.dirs = {d \in @ : ~Below(p, d)}
                                           \cup {e[2] : e \in {x \in back : x[1] = "dir"}}]))

\* a collaborator that touches none of the modelled state: initShared,
\* storageRsyncCopy, untarImage, shiftRootfs,
\* container.TemplateApply, container.Snapshots
Collab(w, what, arg, line, F) == Ext(w, what, arg, line, F, TRUE, NoValue, w)

ConfigKeys == {"storage.lvm_vg_name", "storage.lvm_thinpool_name"}

\* d.ConfigValueGet(key)
ConfigValueGet(w, key, line, F) ==
    Let(Ext(w, "config-get", key, line, F, TRUE,
            Text(IF key = "storage.lvm_vg_name" THEN w.cfgVg ELSE w.cfgPool), w),
        LAMBDA r : [w |-> r.w, ok |-> r.ok, val |-> r.val.text])

\* d.ConfigValueSet(key, value)
ConfigValueSet(w, key, value, line, F) ==
    Ext(w, "config-set", <<key, value>>, line, F, TRUE, NoValue,
        IF key = "storage.lvm_vg_name" THEN [w EXCEPT !.cfgVg = value]
        ELSE [w EXCEPT !.cfgPool = value])

\* shared.PathExists(p)
PathExists(w, p) ==
    Let(Probe(w, "path-exists", p, Flag(Exists(w, p))),
        LAMBDA r : [w |-> r.w, val |-> r.val.flag])

\* shared.PathIsEmpty(p)
PathIsEmpty(w, p, line, F) ==
    Let(Ext(w, "path-is-empty", p, line, F, TRUE, Flag(IsEmptyDir(w, p)), w),
        LAMBDA r : [w |-> r.w, ok |-> r.ok, val |-> r.val.flag])
\* ------------------------------------------------------------------------
\* The names the daemon knows: regular containers, their snapshots, images.

ContainerNames == {<<"a">>, <<"b", "-", "c">>}

SnapshotNames == {<<"a", "/", "s">>, <<"a", "/", "t">>}

Fingerprints == {<<"f">>}

\* what dbContainersList(d.db, cTypeRegular) returns: the container names
\* the daemon lists, in the order of the listing
ContainersListed == <<<<"a">>, <<"b", "-", "c">>, <<"a", "/", "s">>, <<"a", "/", "t">>>>

\* what dbImagesGet(d.db, false) returns: the image fingerprints the daemon
\* lists
ImagesListed == << <<"f">> >>

\* dbContainersList(d.db, cTypeRegular)
dbContainersList(w, line, F) ==
    Let(Ext(w, "containers-list", NoArg, line, F, TRUE, NamesListed(ContainersListed), w),
        LAMBDA r : [w |-> r.w, ok |-> r.ok, val |-> r.val.names])

\* dbImagesGet(d.db, false)
dbImagesGet(w, line, F) ==
    Let(Ext(w, "images-get", NoArg, line, F, TRUE, NamesListed(ImagesListed), w),
        LAMBDA r : [w |-> r.w, ok |-> r.ok, val |-> r.val.names])

\* ------------------------------------------------------------------------
\* The functions of storage_lvm.go

storageLVMCheckVolumeGroup(w, vg, F) ==
    Must(Vgdisplay(w, vg, F), "LVM volume group not found")

\* storageLVMThinpoolExists reporting a volume that is no thin pool as absent
storageLVMThinpoolExists_PlainFalse(exit, output) ==
    IF exit # 0
    THEN IF exit = 5
         THEN [exists |-> FALSE, err |-> ""]
         ELSE [exists |-> FALSE, err |-> "Error checking for pool"]
    ELSE LET attrs == TrimSpace(output)
         IN  [exists |-> HasPrefix(attrs, "t"), err |-> ""]

\* from the outcome of the probe: its exit status (0 when err is nil, -1
\* when err is no ExitError) and what it printed
storageLVMThinpoolExists(exit, output) ==
    IF exit # 0
    THEN IF exit = 5
         THEN [exists |-> FALSE, err |-> ""]
         ELSE [exists |-> FALSE, err |-> "Error checking for pool"]
    ELSE LET attrs == TrimSpace(output)
         IN  IF HasPrefix(attrs, "t")
             THEN [exists |-> TRUE, err |-> ""]
             ELSE [exists |-> FALSE, err |-> "Pool exists but is not a thin pool"]

\* the link path storageLVMGetThinPoolUsers looks for a container name at
ContainerLinkPath(cName) ==
    IF Contains(cName, SnapshotDelimiter)
    THEN VarPath("snapshots", DotLv(cName))
    ELSE VarPath("containers", DotLv(cName))

\* the link path storageLVMGetThinPoolUsers looks for an image name at
ImageLinkPath(imageName) == VarPath("images", DotLv(imageName))

\* the loop over the listed container names from the i-th on: results with
\* the names appended whose link path exists
RECURSIVE AppendLinkedContainers(_, _, _, _)
AppendLinkedContainers(w, cNames, i, results) ==
    IF i > Len(cNames) THEN [w |-> w, results |-> results]
    ELSE Let(PathExists(w, ContainerLinkPath(cNames[i])), LAMBDA pe :
             AppendLinkedContainers(pe.w, cNames, i + 1,
                 IF pe.val THEN Append(results, cNames[i]) ELSE results))

\* the loop over the listed image names from the i-th on
RECURSIVE AppendLinkedImages(_, _, _, _)
AppendLinkedImages(w, imageNames, i, results) ==
    IF i > Len(imageNames) THEN [w |-> w, results |-> results]
    ELSE Let(PathExists(w, ImageLinkPath(imageNames[i])), LAMBDA pe :
             AppendLinkedImages(pe.w, imageNames, i + 1,
                 IF pe.val THEN Append(results, imageNames[i]) ELSE results))

\* what storageLVMGetThinPoolUsers returns: the list and the error
Users(w, users, err) == [w |-> w, users |-> users, err |-> err]

\* storageLVMGetThinPoolUsers without the scan of the images
storageLVMGetThinPoolUsers_NoImages(w, F) ==
    Let(ConfigValueGet(w, "storage.lvm_vg_name", 55, F), LAMBDA vg :
        IF ~vg.ok THEN Users(vg.w, <<>>, "Error getting lvm_vg_name config")
        ELSE IF vg.val = "" THEN Users(vg.w, <<>>, "")
        ELSE
    Let(ConfigValueGet(vg.w, "storage.lvm_thinpool_name", 62, F), LAMBDA pool :
        IF ~pool.ok THEN Users(pool.w, <<>>, "Error getting lvm_thinpool_name config")
        ELSE IF pool.val = "" THEN Users(pool.w, <<>>, "")
        ELSE
    Let(dbContainersList(pool.w, 70, F), LAMBDA cl :
        IF ~cl.ok THEN Users(cl.w, <<>>, "dbContainersList failed")
        ELSE
    Let(AppendLinkedContainers(cl.w, cl.val, 1, <<>>), LAMBDA cs :
        Users(cs.w, cs.results, "")))))

\* storageLVMGetThinPoolUsers taking a listing of the images that failed for
\* a listing of no images
storageLVMGetThinPoolUsers_ImagesErrorDropped(w, F) ==
    Let(ConfigValueGet(w, "storage.lvm_vg_name", 55, F), LAMBDA vg :
        IF ~vg.ok THEN Users(vg.w, <<>>, "Error getting lvm_vg_name config")
        ELSE IF vg.val = "" THEN Users(vg.w, <<>>, "")
        ELSE
    Let(ConfigValueGet(vg.w, "storage.lvm_thinpool_name", 62, F), LAMBDA pool :
        IF ~pool.ok THEN Users(pool.w, <<>>, "Error getting lvm_thinpool_name config")
        ELSE IF pool.val = "" THEN Users(pool.w, <<>>, "")
        ELSE
    Let(dbContainersList(pool.w, 70, F), LAMBDA cl :
        IF ~cl.ok THEN Users(cl.w, <<>>, "dbContainersList failed")
        ELSE
    Let(AppendLinkedContainers(cl.w, cl.val, 1, <<>>), LAMBDA cs :
    Let(dbImagesGet(cs.w, 87, F), LAMBDA il :
        IF ~il.ok THEN Users(il.w, cs.results, "")
        ELSE
    Let(AppendLinkedImages(il.w, il.val, 1, cs.results), LAMBDA is :
        Users(is.w, is.results, "")))))))

storageLVMGetThinPoolUsers(w, F) ==
    Let(ConfigValueGet(w, "storage.lvm_vg_name", 55, F), LAMBDA vg :
        IF ~vg.ok THEN Users(vg.w, <<>>, "Error getting lvm_vg_name config")
        ELSE IF vg.val = "" THEN Users(vg.w, <<>>, "")
        ELSE
    Let(ConfigValueGet(vg.w, "storage.lvm_thinpool_name", 62, F), LAMBDA pool :
        IF ~pool.ok THEN Users(pool.w, <<>>, "Error getting lvm_thinpool_name config")
        ELSE IF pool.val = "" THEN Users(pool.w, <<>>, "")
        ELSE
    Let(dbContainersList(pool.w, 70, F), LAMBDA cl :
        IF ~cl.ok THEN Users(cl.w, <<>>, "dbContainersList failed")
        ELSE
    Let(AppendLinkedContainers(cl.w, cl.val, 1, <<>>), LAMBDA cs :
    Let(dbImagesGet(cs.w, 87, F), LAMBDA il :
        IF ~il.ok THEN Users(il.w, cs.results, "dbImagesGet failed")
        ELSE
    Let(AppendLinkedImages(il.w, il.val, 1, cs.results), LAMBDA is :
        Users(is.w, is.results, "")))))))

InUse == "Can not change LVM config. Images or containers are still using LVs"

UsersUnknown == "Error checking if a pool is already in use"

\* storageLVMSetThinPoolNameConfig writing the name whatever the probe finds
storageLVMSetThinPoolNameConfig_Unprobed(w, poolname, F) ==
    Let(storageLVMGetThinPoolUsers(w, F), LAMBDA u :
        IF u.err # "" THEN R(u.w, UsersUnknown)
        ELSE IF Len(u.users) > 0 THEN R(u.w, InUse)
        ELSE
    Let(ConfigValueGet(u.w, "storage.lvm_vg_name", 111, F), LAMBDA vg :
        IF ~vg.ok THEN R(vg.w, "Error getting lvm_vg_name config: err")
        ELSE
    Then(IF poolname = "" THEN R(vg.w, "")
         ELSE IF vg.val = ""
         THEN R(vg.w, "Can not set lvm_thinpool_name without lvm_vg_name set.")
         ELSE Let(Vgs(vg.w, vg.val, poolname, F), LAMBDA probe : R(probe.w, "")),
         LAMBDA w1 :
    Must(ConfigValueSet(w1, "storage.lvm_thinpool_name", poolname, 130, F),
         "config set failed"))))

storageLVMSetThinPoolNameConfig(w, poolname, F) ==
    Let(storageLVMGetThinPoolUsers(w, F), LAMBDA u :
        IF u.err # "" THEN R(u.w, UsersUnknown)
        ELSE IF Len(u.users) > 0 THEN R(u.w, InUse)
        ELSE
    Let(ConfigValueGet(u.w, "storage.lvm_vg_name", 111, F), LAMBDA vg :
        IF ~vg.ok THEN R(vg.w, "Error getting lvm_vg_name config: err")
        ELSE
    Then(IF poolname = "" THEN R(vg.w, "")
         ELSE IF vg.val = ""
         THEN R(vg.w, "Can not set lvm_thinpool_name without lvm_vg_name set.")
         ELSE Let(Vgs(vg.w, vg.val, poolname, F), LAMBDA probe :
              Let(storageLVMThinpoolExists(probe.exit, probe.output), LAMBDA found :
                  IF found.err # "" THEN R(probe.w, "Error checking for thin pool")
                  ELSE IF ~found.exists
                  THEN R(probe.w, "Pool does not exist in Volume Group")
                  ELSE R(probe.w, ""))),
         LAMBDA w1 :
    Must(ConfigValueSet(w1, "storage.lvm_thinpool_name", poolname, 130, F),
         "config set failed"))))

\* storageLVMSetVolumeGroupNameConfig without the check of the users
storageLVMSetVolumeGroupNameConfig_Unguarded(w, vgname, F) ==
    Then(IF vgname = "" THEN R(w, "") ELSE storageLVMCheckVolumeGroup(w, vgname, F),
         LAMBDA w1 :
    Must(ConfigValueSet(w1, "storage.lvm_vg_name", vgname, 154, F), "config set failed"))

storageLVMSetVolumeGroupNameConfig(w, vgname, F) ==
    Let(storageLVMGetThinPoolUsers(w, F), LAMBDA u :
        IF u.err # "" THEN R(u.w, UsersUnknown)
        ELSE IF Len(u.users) > 0 THEN R(u.w, InUse)
        ELSE
    Then(IF vgname = "" THEN R(u.w, "") ELSE storageLVMCheckVolumeGroup(u.w, vgname, F),
         LAMBDA w1 :
    Must(ConfigValueSet(w1, "storage.lvm_vg_name", vgname, 154, F), "config set failed")))

createDefaultThinPool(w, F) ==
    Let(VgName(w), LAMBDA vg :
    Let(LvcreatePool(vg.w, vg.val, storageLvmDefaultThinPoolName, F), LAMBDA r :
        IF r.ok THEN R(Return(r.w, <<storageLvmDefaultThinPoolName>>), "")
        ELSE R(Return(r.w, <<>>), "Could not create LVM thin pool")))

\* createThinLV from its lvcreate on (lines 701-724)
createThinLVIn(w, lvname, poolname, F) ==
    Let(VgName(w), LAMBDA vg :
    Let(LvcreateThin(vg.w, vg.val, lvname, poolname, F), LAMBDA lc :
        IF ~lc.ok THEN R(Return(lc.w, <<>>), "Could not create thin LV")
        ELSE
    Let(VgName(lc.w), LAMBDA vg2 :
    Let(Mkfs(vg2.w, vg2.val, lvname, F), LAMBDA mk :
        IF ~mk.ok THEN R(Return(mk.w, <<>>), "Error making filesystem on image LV")
        ELSE R(Return(mk.w, DevPath(vg2.val, lvname)), "")))))

\* createThinLV that bootstraps the pool whatever name is stored
createThinLV_AlwaysBootstraps(w, lvname, F) ==
    Let(ConfigValueGet(Enter(w, "createThinLV", lvname), "storage.lvm_thinpool_name",
                       684, F), LAMBDA cfg :
        IF ~cfg.ok THEN R(Return(cfg.w, <<>>), "Error checking server config")
        ELSE
    Let(createDefaultThinPool(cfg.w, F), LAMBDA mk :
        IF mk.err # "" THEN R(Return(mk.w, <<>>), "Error creating LVM thin pool")
        ELSE
    Let(storageLVMSetThinPoolNameConfig(mk.w, mk.w.ret[1], F), LAMBDA st :
        IF st.err # "" THEN R(Return(st.w, <<>>), "Error setting LVM thin pool config")
        ELSE createThinLVIn(st.w, lvname, mk.w.ret[1], F))))

createThinLV(w, lvname, F) ==
    Let(ConfigValueGet(Enter(w, "createThinLV", lvname), "storage.lvm_thinpool_name",
                       684, F), LAMBDA cfg :
        IF ~cfg.ok THEN R(Return(cfg.w, <<>>), "Error checking server config")
        ELSE IF cfg.val = ""
        THEN Let(createDefaultThinPool(cfg.w, F), LAMBDA mk :
                 IF mk.err # "" THEN R(Return(mk.w, <<>>), "Error creating LVM thin pool")
                 ELSE
             Let(storageLVMSetThinPoolNameConfig(mk.w, mk.w.ret[1], F), LAMBDA st :
                 IF st.err # ""
                 THEN R(Return(st.w, <<>>), "Error setting LVM thin pool config")
                 ELSE createThinLVIn(st.w, lvname, mk.w.ret[1], F)))
        ELSE createThinLVIn(cfg.w, lvname, cfg.val, F))

removeLV(w, lvname, F) ==
    Let(VgName(w), LAMBDA vg :
        Must(Lvremove(vg.w, vg.val, lvname, F), "Could not remove LV"))

createSnapshotLV(w, lvname, origlvname, readonly, F) ==
    Let(VgName(Enter(w, "createSnapshotLV", lvname)), LAMBDA vg :
    Let(LvcreateSnapshot(vg.w, vg.val, lvname, origlvname, F), LAMBDA lc :
        IF ~lc.ok THEN R(Return(lc.w, <<>>), "Could not create snapshot LV")
        ELSE
    Let(VgName(lc.w), LAMBDA vg2 :
    Let(Lvchange(vg2.w, vg2.val, lvname, readonly, F), LAMBDA ch :
        IF ~ch.ok THEN R(Return(ch.w, <<>>), "Could not activate new snapshot")
        ELSE R(Return(ch.w, DevPath(vg2.val, lvname)), "")))))

renameLV(w, oldName, newName, k, F) ==
    Let(VgName(w), LAMBDA vg :
        Must(Lvrename(vg.w, vg.val, oldName, newName, k, F), "lvrename failed"))

isLVMContainer(w, name) == PathExists(w, DotLv(Path(name)))
\* ------------------------------------------------------------------------
\* The driver's methods.  name is container.Name(), Path(name) is
\* container.Path().

\* the storage type of this driver and the name storage.go gives a type
\* (both defined outside this file)
storageTypeLvm == "storageTypeLvm"
storageTypeToString(sType) == <<"storageTypeToString", sType>>

\* what the command lvm version prints: lines of a label, a colon and a
\* version, the last one ended by a newline
LvmVersionOutput ==
    <<" ", "L", "V", "M", ":", " ", "2", "\n", " ", "D", "r", "v", ":", " ", "4", "\n">>

\* exec.Command("lvm", "version").CombinedOutput()
LvmVersion(w, F) ==
    Let(Ext(w, "lvm-version", NoArg, 181, F, TRUE, Parts(LvmVersionOutput), w),
        LAMBDA r : [w |-> r.w, ok |-> r.ok, val |-> r.val.parts])

\* s.sTypeVersion += text (lines 194, 196): a read of the field and a write
\* of what was read with text after it
AppendToVersion(w, text) ==
    Let(Peek(w, Parts(w.storageShared.sTypeVersion)), LAMBDA rd :
        Poke(rd.w, [rd.w EXCEPT !.storageShared.sTypeVersion = rd.val.parts \o text]))

\* the loop of Init over the lines printed, from the line of index idx on
\* (lines 188-197)
RECURSIVE VersionOfLines(_, _, _)
VersionOfLines(w, lines, idx) ==
    IF idx >= Len(lines) THEN w
    ELSE LET fields == SplitAfterN2(lines[idx + 1], ":")
         IN  IF Len(fields) < 2 THEN VersionOfLines(w, lines, idx + 1)
             ELSE Let(IF idx > 0 THEN AppendToVersion(w, <<" ", "/", " ">>) ELSE w,
                      LAMBDA w1 :
                  Let(AppendToVersion(w1, TrimSpace(fields[2])), LAMBDA w2 :
                      VersionOfLines(w2, lines, idx + 1)))

\* what s.sTypeVersion holds after an Init that ran alone on the output
\* printed
VersionOf(output) ==
    VersionOfLines([step |-> FALSE, storageShared |-> [sTypeVersion |-> <<>>]],
                   Split(output, "\n"), 0).storageShared.sTypeVersion

\* storageLvm.Init(config): config is <<>> when it has no "vgName" key and
\* <<v>> when config["vgName"] = v.  It returns the driver ("s") or nil
\* beside its error.
DriverInit(w, config, F) ==
    Let(Poke(w, [w EXCEPT !.storageShared.sType = storageTypeLvm]), LAMBDA w0 :
    Let(Peek(w0, Text(w0.storageShared.sType)), LAMBDA ty :
    Let(Poke(ty.w, [ty.w EXCEPT !.storageShared.sTypeName =
                                    storageTypeToString(ty.val.text)]),
        LAMBDA w00 :
    Let(Collab(w00, "init-shared", NoArg, 177, F), LAMBDA sh :
        IF ~sh.ok THEN R(Return(sh.w, <<"s">>), "initShared failed")
        ELSE
    Let(LvmVersion(sh.w, F), LAMBDA ver :
        IF ~ver.ok THEN R(Return(ver.w, <<"nil">>), "Error getting LVM version")
        ELSE
    Let(Poke(ver.w, [ver.w EXCEPT !.storageShared.sTypeVersion = <<>>]), LAMBDA wv :
    Let(VersionOfLines(wv, Split(ver.val, "\n"), 0), LAMBDA w1 :
        IF config = <<>>
        THEN Let(ConfigValueGet(w1, "storage.lvm_vg_name", 200, F), LAMBDA cfg :
                 IF ~cfg.ok THEN R(Return(cfg.w, <<"s">>), "Error checking server config")
                 ELSE IF cfg.val = "" THEN R(Return(cfg.w, <<"s">>), "LVM isn't enabled")
                 ELSE
             Then(storageLVMCheckVolumeGroup(Return(cfg.w, <<"s">>), cfg.val, F), LAMBDA w2 :
                  R(Poke(w2, [w2 EXCEPT !.vgName = cfg.val]), "")))
        ELSE R(Poke(Return(w1, <<"s">>), [Return(w1, <<"s">>) EXCEPT !.vgName = config[1]]),
               ""))))))))

ContainerCreate(w, name, F) ==
    LET containerName == containerNameToLVName(name)
        dst == VarPath("containers", DotLv(name))
    IN  Then(createThinLV(Enter(w, "ContainerCreate", name), containerName, F), LAMBDA w1 :
        Then(Must(MkdirAll(w1, Path(name), 226, F), "mkdir failed"), LAMBDA w2 :
        Must(Symlink(w2, dst, 231, F), "symlink failed")))

\* ContainerDelete without the removal of the link
ContainerDelete_KeepLink(w, name, F) ==
    LET lvName == containerNameToLVName(name)
        cPath == Path(name)
    IN  Then(removeLV(Enter(w, "ContainerDelete", name), lvName, F), LAMBDA w1 :
        Must(RemoveAll(w1, cPath, 316, F), "Cleaning up failed"))

\* ContainerDelete removing the link before the volume
ContainerDelete_LinkFirst(w, name, F) ==
    LET lvName == containerNameToLVName(name)
        lvLinkPath == DotLv(Path(name))
        cPath == Path(name)
    IN  Then(Must(Remove(Enter(w, "ContainerDelete", name), lvLinkPath, 311, F),
                  "remove link failed"), LAMBDA w1 :
        Then(removeLV(w1, lvName, F), LAMBDA w2 :
        Must(RemoveAll(w2, cPath, 316, F), "Cleaning up failed")))

ContainerDelete(w, name, F) ==
    LET lvName == containerNameToLVName(name)
        lvLinkPath == DotLv(Path(name))
        cPath == Path(name)
    IN  Then(removeLV(Enter(w, "ContainerDelete", name), lvName, F), LAMBDA w1 :
        Then(Must(Remove(w1, lvLinkPath, 311, F), "remove link failed"), LAMBDA w2 :
        Must(RemoveAll(w2, cPath, 316, F), "Cleaning up failed")))

\* ImageCreate returning the error of untarImage before the unmount
ImageCreate_UntarAborts(w, fingerprint, F) ==
    LET finalName == VarPath("images", fingerprint)
        dst == VarPath("images", DotLv(fingerprint))
    IN  Then(Wrap(createThinLV(Enter(w, "ImageCreate", fingerprint), fingerprint, F),
                  "Error Creating LVM LV for new image"), LAMBDA w1 :
        Then(Must(Symlink(w1, dst, 599, F), "symlink failed"), LAMBDA w2 :
        Let(TempDir(w2, VarDir("images"), 604, F), LAMBDA td :
            IF ~td.ok THEN R(td.w, "tempdir failed")
            ELSE
        Let(Then(Must(Mount(td.w, w1.ret, td.val, 614, F), "Error mounting image LV"),
                 LAMBDA w4 :
            Then(Must(Collab(w4, "untar", finalName, 626, F), "untar failed"), LAMBDA w5 :
            Must(Unmount(w5, td.val, 628, F), "unmount failed"))), LAMBDA body :
        Let(RemoveAll(body.w, td.val, 609, F), LAMBDA rm : R(rm.w, body.err))))))

ImageCreate(w, fingerprint, F) ==
    LET finalName == VarPath("images", fingerprint)
        dst == VarPath("images", DotLv(fingerprint))
    IN  Then(Wrap(createThinLV(Enter(w, "ImageCreate", fingerprint), fingerprint, F),
                  "Error Creating LVM LV for new image"), LAMBDA w1 :
        Then(Must(Symlink(w1, dst, 599, F), "symlink failed"), LAMBDA w2 :
        Let(TempDir(w2, VarDir("images"), 604, F), LAMBDA td :
            IF ~td.ok THEN R(td.w, "tempdir failed")
            ELSE
        Let(Let(Mount(td.w, w1.ret, td.val, 614, F), LAMBDA mt :
                IF ~mt.ok THEN R(mt.w, "Error mounting image LV")
                ELSE
            Let(Collab(mt.w, "untar", finalName, 626, F), LAMBDA untar :
            Let(Unmount(untar.w, td.val, 628, F), LAMBDA um :
                IF ~um.ok
                THEN IF untar.ok
                     THEN R(um.w, "unmount failed")
                     ELSE R(um.w, "Error unmounting during cleanup of untar error")
                ELSE R(um.w, IF untar.ok THEN "" ELSE "untar failed")))), LAMBDA body :
        \* the deferred os.RemoveAll(tempLVMountPoint), its error logged only
        Let(RemoveAll(body.w, td.val, 609, F), LAMBDA rm : R(rm.w, body.err))))))

ImageDelete(w, fingerprint, F) ==
    LET lvsymlink == DotLv(VarPath("images", fingerprint))
    IN  Then(removeLV(Enter(w, "ImageDelete", fingerprint), fingerprint, F), LAMBDA w1 :
        Must(Remove(w1, lvsymlink, 652, F), "Failed to remove symlink to deleted image LV"))

\* ContainerCreateFromImage once shiftRootfs has failed (lines 277-283)
ContainerCreateFromImageShiftFailed(w, name, F) ==
    Let(Unmount(w, Path(name), 277, F), LAMBDA um :
        IF ~um.ok
        THEN R(um.w, "Error in umount while cleaning up after error in shiftRootfs")
        ELSE Let(ContainerDelete(um.w, name, F), LAMBDA del :
                 R(del.w, "Error in shiftRootfs")))

\* ContainerCreateFromImage from the template hook on (lines 286-297)
ContainerCreateFromImageFinish(w, name, F) ==
    Let(Collab(w, "template-create", name, 286, F), LAMBDA tp :
    Let(Unmount(tp.w, Path(name), 292, F), LAMBDA um :
        IF ~um.ok THEN R(um.w, "Error unmounting after shiftRootfs")
        ELSE R(um.w, IF tp.ok THEN "" ELSE "template failed")))

ContainerCreateFromImage(w, name, privileged, imageFingerprint, F) ==
    LET imageLVFilename == VarPath("images", DotLv(imageFingerprint))
        containerName == containerNameToLVName(name)
        destPath == Path(name)
        dst == VarPath("containers", DotLv(name))
    IN  Let(PathExists(Enter(w, "ContainerCreateFromImage", name), imageLVFilename),
            LAMBDA pe :
        Then(IF ~pe.val THEN ImageCreate(pe.w, imageLVFilename, F) ELSE R(pe.w, ""),
             LAMBDA w1 :
        Then(createSnapshotLV(w1, containerName, imageFingerprint, FALSE, F), LAMBDA w2 :
        Then(Must(MkdirAll(w2, destPath, 259, F), "Error creating container directory"),
             LAMBDA w3 :
        Then(Must(Symlink(w3, dst, 264, F), "symlink failed"), LAMBDA w4 :
        Let(Mount(w4, w2.ret, destPath, 269, F), LAMBDA mt :
            IF ~mt.ok
            THEN Let(ContainerDelete(mt.w, name, F), LAMBDA del :
                     R(del.w, "Error mounting snapshot LV"))
            ELSE IF privileged THEN ContainerCreateFromImageFinish(mt.w, name, F)
            ELSE Let(Collab(mt.w, "shiftRootfs", name, 276, F), LAMBDA sh :
                     IF sh.ok THEN ContainerCreateFromImageFinish(sh.w, name, F)
                     ELSE ContainerCreateFromImageShiftFailed(sh.w, name, F))))))))

ContainerStart(w, name, F) ==
    Let(VgName(Enter(w, "ContainerStart", name)), LAMBDA vg :
        Must(Mount(vg.w, DevPath(vg.val, containerNameToLVName(name)), Path(name),
                   363, F),
             "Error mounting snapshot LV"))

ContainerStop(w, name, F) ==
    Must(Unmount(Enter(w, "ContainerStop", name), Path(name), 377, F),
         "failed to unmount container path")

createSnapshotContainer(w, name, sourceName, readonly, F) ==
    LET srcName == containerNameToLVName(sourceName)
        destName == containerNameToLVName(name)
        destPath == Path(name)
        dest == DotLv(Path(name))
    IN  Then(Wrap(createSnapshotLV(Enter(w, "createSnapshotContainer", name), destName,
                                   srcName, readonly, F),
                  "Error creating snapshot LV"), LAMBDA w1 :
        Then(Must(MkdirAll(w1, destPath, 474, F), "Error creating container directory"),
             LAMBDA w2 :
        Must(Symlink(w2, dest, 479, F), "symlink failed")))

\* the else branch of ContainerCopy, up to ContainerStop (lines 331-355)
ContainerCopyFallback(w, name, sourceName, F) ==
    Then(ContainerCreate(w, name, F), LAMBDA w1 :
    Let(ContainerStart(w1, name, F), LAMBDA st :
        IF st.err # ""
        THEN Let(ContainerDelete(st.w, name, F), LAMBDA del : R(del.w, st.err))
        ELSE Let(Collab(st.w, "rsync", Path(sourceName) \o Path(name), 344, F), LAMBDA rs :
                 IF ~rs.ok
                 THEN Let(ContainerDelete(rs.w, name, F), LAMBDA del :
                          R(del.w, "rsync failed"))
                 ELSE ContainerStop(rs.w, name, F))))

\* ContainerCopy without the test of the source's link
ContainerCopy_AlwaysFallback(w, name, sourceName, F) ==
    Then(ContainerCopyFallback(Enter(w, "ContainerCopy", name), name, sourceName, F),
         LAMBDA w9 : Must(Collab(w9, "template-copy", name, 357, F), "template failed"))

ContainerCopy(w, name, sourceName, F) ==
    Let(isLVMContainer(Enter(w, "ContainerCopy", name), sourceName), LAMBDA lvm :
        Then(IF lvm.val
             THEN createSnapshotContainer(lvm.w, name, sourceName, FALSE, F)
             ELSE ContainerCopyFallback(lvm.w, name, sourceName, F),
             LAMBDA w9 : Must(Collab(w9, "template-copy", name, 357, F),
                              "template failed")))

\* ContainerRestore with the error of removeLV dropped
ContainerRestore_CloneRegardless(w, name, sourceName, F) ==
    LET srcName == containerNameToLVName(sourceName)
        destName == containerNameToLVName(name)
    IN  Let(removeLV(Enter(w, "ContainerRestore", name), destName, F), LAMBDA rm :
        Wrap(createSnapshotLV(rm.w, destName, srcName, FALSE, F),
             "Error creating snapshot LV"))

ContainerRestore(w, name, sourceName, F) ==
    LET srcName == containerNameToLVName(sourceName)
        destName == containerNameToLVName(name)
    IN  Then(Wrap(removeLV(Enter(w, "ContainerRestore", name), destName, F),
                  "Error removing LV about to be restored over"), LAMBDA w1 :
        Wrap(createSnapshotLV(w1, destName, srcName, FALSE, F),
             "Error creating snapshot LV"))

ContainerSnapshotCreate(w, name, sourceName, F) ==
    createSnapshotContainer(Enter(w, "ContainerSnapshotCreate", name), name, sourceName,
                            TRUE, F)

\* if ok, _ := shared.PathIsEmpty(parent); ok { os.Remove(parent) }: neither
\* error is looked at
RemoveIfEmpty(w, parent, line, F) ==
    Let(PathIsEmpty(w, parent, line, F), LAMBDA em :
        IF em.ok /\ em.val
        THEN Let(Remove(em.w, parent, line + 1, F), LAMBDA rm : R(rm.w, ""))
        ELSE R(em.w, ""))

ContainerSnapshotDelete(w, name, F) ==
    LET oldPathParent == Dir(Path(name))
    IN  Then(Wrap(ContainerDelete(Enter(w, "ContainerSnapshotDelete", name), name, F),
                  "Error deleting snapshot"), LAMBDA w1 :
        RemoveIfEmpty(w1, oldPathParent, 496, F))

ContainerSnapshotRename(w, name, newContainerName, F) ==
    LET oldName == containerNameToLVName(name)
        newName == containerNameToLVName(newContainerName)
        oldPath == Path(name)
        oldSymPath == DotLv(oldPath)
        newPath == containerPath(newName, TRUE)
        newSymPath == DotLv(newPath)
    IN  Then(Wrap(renameLV(Enter(w, "ContainerSnapshotRename",
                                 name \o <<"->">> \o newContainerName),
                           oldName, newName, 0, F),
                  "Failed to rename a container LV"), LAMBDA w1 :
        Then(Must(Rename(w1, oldSymPath, newSymPath, 518, F), "Failed to rename symlink"),
             LAMBDA w2 :
        Then(IF Contains(name, "/")
             THEN Let(PathExists(w2, Dir(newPath)), LAMBDA pe :
                      IF ~pe.val
                      THEN Let(MkdirAll(pe.w, Dir(newPath), 525, F), LAMBDA mk :
                               R(mk.w, ""))
                      ELSE R(pe.w, ""))
             ELSE R(w2, ""), LAMBDA w3 :
        IF Contains(name, "/")
        THEN RemoveIfEmpty(w3, Dir(oldPath), 530, F)
        ELSE R(w3, ""))))

\* container.Name() + "/rw"
OverlayName(name) == name \o <<"/", "rw">>

ContainerSnapshotStart(w, name, F) ==
    LET srcName == containerNameToLVName(name)
        destName == containerNameToLVName(OverlayName(name))
        destPath == Path(name)
    IN  Then(Wrap(createSnapshotLV(Enter(w, "ContainerSnapshotStart", name), destName,
                                   srcName, FALSE, F),
                  "Error creating snapshot LV"), LAMBDA w1 :
        Let(PathExists(w1, destPath), LAMBDA pe :
        Then(IF ~pe.val
             THEN Must(MkdirAll(pe.w, destPath, 553, F),
                       "Error creating container directory")
             ELSE R(pe.w, ""), LAMBDA w2 :
        Must(Mount(w2, w1.ret, Path(name), 558, F), "Error mounting snapshot LV"))))

\* ContainerSnapshotStop removing the snapshot's volume instead of the overlay
ContainerSnapshotStop_RemovesSnapshot(w, name, F) ==
    Then(ContainerStop(Enter(w, "ContainerSnapshotStop", name), name, F), LAMBDA w1 :
         removeLV(w1, containerNameToLVName(name), F))

ContainerSnapshotStop(w, name, F) ==
    LET lvName == containerNameToLVName(OverlayName(name))
    IN  Then(ContainerStop(Enter(w, "ContainerSnapshotStop", name), name, F), LAMBDA w1 :
             removeLV(w1, lvName, F))

ContainerSnapshotCreateEmpty(w, name, F) ==
    ContainerCreate(Enter(w, "ContainerSnapshotCreateEmpty", name), name, F)

\* snaps is what container.Snapshots() returns (consulted for a container
\* that is no snapshot); k is the nesting depth: 0 for the caller's call, i
\* for the call made for the i-th snapshot.
RECURSIVE ContainerRename(_, _, _, _, _, _)
RECURSIVE RenameSnapshots(_, _, _, _, _)
ContainerRename(w, name, newContainerName, snaps, k, F) ==
    LET w0 == Enter(w, "ContainerRename", name \o <<"->">> \o newContainerName)
        oldName == containerNameToLVName(name)
        newName == containerNameToLVName(newContainerName)
        oldSymPath == DotLv(Path(name))
        newSymPath == DotLv(containerPath(newName, FALSE))
    IN  Then(Wrap(renameLV(w0, oldName, newName, k, F), "Failed to rename a container LV"),
             LAMBDA w1 :
        Then(Must(Rename(w1, oldSymPath, newSymPath, 407 + 1000 * k, F),
                  "rename of the symlink failed"),
             LAMBDA w2 :
        IF IsSnapshot(name) THEN R(w2, "")
        ELSE Then(Must(Collab(w2, "snapshots", name, 417, F), "listing snapshots failed"),
                  LAMBDA w3 : RenameSnapshots(w3, snaps, 1, newName, F))))

\* the loop over snaps, from the i-th on
RenameSnapshots(w, snaps, i, newName, F) ==
    IF i > Len(snaps) THEN R(w, "")
    ELSE LET baseSnapName == Base(snaps[i])
             newSnapshotName == newName \o <<SnapshotDelimiter>> \o baseSnapName
         IN  Then(ContainerRename(w, snaps[i], newSnapshotName, <<>>, i, F),
                  LAMBDA w1 : RenameSnapshots(w1, snaps, i + 1, newName, F))
\* ------------------------------------------------------------------------
\* The state machine.  The driver holds no lock: a call of an operation is
\* made one step at a time (an external call, a read or a write of the
\* driver's memory), and the steps of the calls in flight
\* interleave.  calls is the bag of the calls in flight, each
\*   [op, param, trace],
\* trace being what the call has seen so far (the outcomes of its external
\* calls and of its reads of the driver's memory).

\* the world as a call made as a whole finds it
World ==
    [lvs |-> lvs, pools |-> pools, links |-> links, dirs |-> dirs, mounts |-> mounts,
     covered |-> covered, inside |-> inside,
     cfgVg |-> cfgVg, cfgPool |-> cfgPool, vgName |-> vgName,
     storageShared |-> storageShared, log |-> <<>>, hit |-> {},
     ran |-> {}, busy |-> {}, ret |-> <<>>, step |-> FALSE, trace |-> <<>>, pos |-> 0,
     fail |-> FALSE, live |-> FALSE, new |-> <<>>, more |-> FALSE,
     listed |-> 0]

\* the world as the next step of a call that has seen trace finds it
StepWorld(trace, fail) == [World EXCEPT !.step = TRUE, !.trace = trace, !.fail = fail]

\* The arguments of a call, one field per kind: the name of the container,
\* snapshot or image it is about (name), the name of its source, its new
\* name or its image (other), what container.Snapshots() lists (snaps), a
\* value to store (text), container.IsPrivileged() (flag), the
\* configuration of Init (config).
NoParam ==
    [name |-> <<>>, other |-> <<>>, snaps |-> <<>>, text |-> "", flag |-> FALSE,
     config |-> <<>>]
Named(name) == [NoParam EXCEPT !.name = name]
NamedWith(name, other) == [NoParam EXCEPT !.name = name, !.other = other]

\* the operation op with the arguments args in the world w under the faults F
RunCall(op, args, w, F) ==
    CASE op = "Init" -> DriverInit(w, args.config, F)
      [] op = "SetVolumeGroupName" -> storageLVMSetVolumeGroupNameConfig(w, args.text, F)
      [] op = "SetThinPoolName" -> storageLVMSetThinPoolNameConfig(w, args.text, F)
      [] op = "ContainerCreate" -> ContainerCreate(w, args.name, F)
      [] op = "ContainerDelete" -> ContainerDelete(w, args.name, F)
      [] op = "ImageCreate" -> ImageCreate(w, args.name, F)
      [] op = "ImageDelete" -> ImageDelete(w, args.name, F)
      [] op = "ContainerCreateFromImage" ->
             ContainerCreateFromImage(w, args.name, args.flag, args.other, F)
      [] op = "ContainerCopy" -> ContainerCopy(w, args.name, args.other, F)
      [] op = "ContainerStart" -> ContainerStart(w, args.name, F)
      [] op = "ContainerStop" -> ContainerStop(w, args.name, F)
      [] op = "ContainerRename" -> ContainerRename(w, args.name, args.other, args.snaps, 0, F)
      [] op = "ContainerRestore" -> ContainerRestore(w, args.name, args.other, F)
      [] op = "ContainerSnapshotCreate" -> ContainerSnapshotCreate(w, args.name, args.other, F)
      [] op = "ContainerSnapshotDelete" -> ContainerSnapshotDelete(w, args.name, F)
      [] op = "ContainerSnapshotRename" -> ContainerSnapshotRename(w, args.name, args.other, F)
      [] op = "ContainerSnapshotStart" -> ContainerSnapshotStart(w, args.name, F)
      [] op = "ContainerSnapshotStop" -> ContainerSnapshotStop(w, args.name, F)
      [] op = "ContainerSnapshotCreateEmpty" -> ContainerSnapshotCreateEmpty(w, args.name, F)

\* no call is in flight
Quiet == calls = EmptyBag

\* The runs of the operation Run(F), F the faults it suffers and the order
\* of its listings, in which the faults of F and at most n more strike: a
\* further fault strikes a call made after the last of F struck, and a run
\* that lists a directory of several entries is also made with each other
\* order.
RECURSIVE Strikes(_, _, _)
Strikes(Run(_), F, n) ==
    Let(Run(F), LAMBDA r :
        IF r.w.hit # FaultsOf(F) THEN {}
        ELSE {r}
             \cup (IF n = 0 THEN {}
                    ELSE UNION {Strikes(Run, F \cup {x}, n - 1) : x \in r.w.ran})
             \cup (IF OrderOf(F) # 0 THEN {}
                    ELSE UNION {Strikes(Run, F \cup {-o}, n) :
                                    o \in Orders(r.w.listed) \ {0}}))

\* the runs of an operation when used faults have struck before it
RunsLeft(Run(_), used) ==
    Strikes(Run, {}, IF used >= MaxFaults THEN 0 ELSE MaxFaults - used)

\* the runs of an operation made as a whole in the current state, no other
\* call being in flight
Runs(Run(_)) == IF Quiet THEN RunsLeft(Run, faults) ELSE {}

\* the volume-group and pool names callers pass
VgInputs == {"", "vg0", "vg1"}
PoolInputs == {"", storageLvmDefaultThinPoolName, "pool1"}

\* the state the run r leaves
Effect(r) ==
    /\ lvs' = r.w.lvs
    /\ pools' = r.w.pools
    /\ links' = r.w.links
    /\ dirs' = r.w.dirs
    /\ mounts' = r.w.mounts
    /\ covered' = r.w.covered
    /\ inside' = r.w.inside
    /\ cfgVg' = r.w.cfgVg
    /\ cfgPool' = r.w.cfgPool
    /\ vgName' = r.w.vgName
    /\ storageShared' = r.w.storageShared
    /\ faults' = faults + Cardinality(r.w.hit)

\* what a step adds to the trace, the entries of a listing made in it put
\* in the order numbered o
Reordered(new, o) ==
    [i \in 1..Len(new) |->
        [new[i] EXCEPT !.val.entries = Listing(Range(@), o)]]

\* how many entries a listing made in the step gave
ListedIn(new) == IF new = <<>> THEN 0 ELSE Len(new[1].val.entries)

\* the next step of the call of op with args that has seen trace: its
\* external call, read or write is made, an external call failing if fail
\* (while the run has faults left) and a listing giving the entries in any
\* order; the call stays in flight when it has a step left
Step(op, args, trace, rest) ==
    \E fail \in IF faults < MaxFaults THEN BOOLEAN ELSE {FALSE} :
        \E r \in {RunCall(op, args, StepWorld(trace, fail), {})} :
            /\ fail => r.w.hit # {}
            /\ Effect(r)
            /\ \E o \in Orders(ListedIn(r.w.new)) :
                   calls' = IF r.w.more
                            THEN rest (+) SetToBag({[op |-> op, param |-> args,
                                                     trace |-> trace \o Reordered(r.w.new, o)]})
                            ELSE rest

\* a caller may call an operation: the run has calls left, fewer than
\* MaxCallers calls are in flight, and a run in which calls are in flight
\* together makes no more than MaxOverlapping calls
CanBegin ==
    /\ nops < MaxOps
    /\ BagCardinality(calls) < MaxCallers
    /\ (overlapped \/ ~Quiet) => nops < MaxOverlapping

\* a caller calls op with args: the call's first step
Begin(op, args) ==
    /\ nops' = nops + 1
    /\ overlapped' = (overlapped \/ ~Quiet)
    /\ Step(op, args, <<>>, calls)
    /\ UNCHANGED <<given, got>>

\* a call in flight takes its next step
Continue ==
    /\ \E c \in BagToSet(calls) :
           Step(c.op, c.param, c.trace, calls (-) SetToBag({c}))
    /\ UNCHANGED <<nops, given, got, overlapped>>

\* no argument drawn, no result recorded
None == <<>>

\* The daemon has stored the volume group vg0 and constructed the driver
\* from it (storageLvm.Init returned without error); nothing is allocated.
Nothing ==
    /\ lvs = {}
    /\ pools = {}
    /\ links = {}
    /\ dirs = {}
    /\ mounts = <<>>
    /\ covered = {}
    /\ inside = {}
    /\ cfgVg = "vg0"
    /\ cfgPool = ""
    /\ vgName = "vg0"
    /\ storageShared =
           [sType |-> storageTypeLvm,
            sTypeName |-> storageTypeToString(storageTypeLvm),
            sTypeVersion |-> VersionOf(LvmVersionOutput)]
    /\ faults = 0
    /\ nops = 0
    /\ calls = EmptyBag
    /\ overlapped = FALSE

Init ==
    /\ Nothing
    /\ given = None
    /\ got = None

\* the configurations the driver is constructed again with
InitConfigs == {<<>>, <<"">>, <<"vg0">>, <<"vg1">>}

OpInit ==
    /\ CanBegin
    /\ \E config \in InitConfigs : Begin("Init", [NoParam EXCEPT !.config = config])

OpSetVolumeGroupName ==
    /\ CanBegin
    /\ \E v \in VgInputs : Begin("SetVolumeGroupName", [NoParam EXCEPT !.text = v])

OpSetThinPoolName ==
    /\ CanBegin
    /\ \E p \in PoolInputs : Begin("SetThinPoolName", [NoParam EXCEPT !.text = p])

OpCreate ==
    /\ CanBegin
    /\ \E name \in ContainerNames : Begin("ContainerCreate", Named(name))

OpDelete ==
    /\ CanBegin
    /\ \E name \in ContainerNames : Begin("ContainerDelete", Named(name))

OpImageCreate ==
    /\ CanBegin
    /\ \E fp \in Fingerprints : Begin("ImageCreate", Named(fp))

OpImageDelete ==
    /\ CanBegin
    /\ \E fp \in Fingerprints : Begin("ImageDelete", Named(fp))

OpCreateFromImage ==
    /\ CanBegin
    /\ \E name \in ContainerNames, privileged \in BOOLEAN, fp \in Fingerprints :
        Begin("ContainerCreateFromImage",
              [NoParam EXCEPT !.name = name, !.flag = privileged, !.other = fp])

\* the sources a copy may name
CopySources == ContainerNames \cup SnapshotNames

OpCopy ==
    /\ CanBegin
    /\ \E name \in ContainerNames, src \in CopySources :
        name # src /\ Begin("ContainerCopy", NamedWith(name, src))

OpStart ==
    /\ CanBegin
    /\ \E name \in ContainerNames : Begin("ContainerStart", Named(name))

OpStop ==
    /\ CanBegin
    /\ \E name \in ContainerNames : Begin("ContainerStop", Named(name))

\* the snapshots the daemon may list for a container
SnapshotsOf(name) == {sn \in SnapshotNames : IsPrefix(name \o <<SnapshotDelimiter>>, sn)}

\* the orderings of a finite set as sequences
RECURSIVE Listings(_)
Listings(S) ==
    IF S = {} THEN {<<>>}
    ELSE UNION {{<<x>> \o l : l \in Listings(S \ {x})} : x \in S}

\* what container.Snapshots() may return for a container
SnapshotLists(name) == UNION {Listings(S) : S \in SUBSET SnapshotsOf(name)}

\* the new names a rename of name may ask for
RenameTargets(name) ==
    {n \in ContainerNames \cup SnapshotNames :
        n # name /\ IsSnapshot(n) = IsSnapshot(name)}

OpRename ==
    /\ CanBegin
    /\ \E name \in ContainerNames \cup SnapshotNames :
      \E newName \in RenameTargets(name), snaps \in SnapshotLists(name) :
        Begin("ContainerRename",
              [NoParam EXCEPT !.name = name, !.other = newName, !.snaps = snaps])

OpRestore ==
    /\ CanBegin
    /\ \E name \in ContainerNames, src \in SnapshotNames :
        Begin("ContainerRestore", NamedWith(name, src))

OpSnapshotCreate ==
    /\ CanBegin
    /\ \E name \in SnapshotNames, src \in ContainerNames :
        Begin("ContainerSnapshotCreate", NamedWith(name, src))

OpSnapshotDelete ==
    /\ CanBegin
    /\ \E name \in SnapshotNames : Begin("ContainerSnapshotDelete", Named(name))

OpSnapshotRename ==
    /\ CanBegin
    /\ \E name \in SnapshotNames :
      \E newName \in RenameTargets(name) :
        Begin("ContainerSnapshotRename", NamedWith(name, newName))

OpSnapshotStart ==
    /\ CanBegin
    /\ \E name \in SnapshotNames : Begin("ContainerSnapshotStart", Named(name))

OpSnapshotStop ==
    /\ CanBegin
    /\ \E name \in SnapshotNames : Begin("ContainerSnapshotStop", Named(name))

OpSnapshotCreateEmpty ==
    /\ CanBegin
    /\ \E name \in SnapshotNames : Begin("ContainerSnapshotCreateEmpty", Named(name))

\* the operations that leave the stored configuration and the driver's
\* binding to the driver
NextUnconfigured ==
    \/ OpCreate
    \/ OpDelete
    \/ OpImageCreate
    \/ OpImageDelete
    \/ OpCreateFromImage
    \/ OpCopy
    \/ OpStart
    \/ OpStop
    \/ OpRename
    \/ OpRestore
    \/ OpSnapshotCreate
    \/ OpSnapshotDelete
    \/ OpSnapshotRename
    \/ OpSnapshotStart
    \/ OpSnapshotStop
    \/ OpSnapshotCreateEmpty
    \/ Continue

Next ==
    \/ OpInit
    \/ OpSetVolumeGroupName
    \/ OpSetThinPoolName
    \/ NextUnconfigured

Spec == Init /\ [][Next]_vars

\* The driver with the stored configuration left to it: no setter is
\* called and the driver is not constructed again.
SpecUnconfigured == Init /\ [][NextUnconfigured]_vars
\* ------------------------------------------------------------------------
\* The functions without state, applied to arguments drawn at the start

\* Bound: the length of what the probe prints.
MaxOutput == 3

\* Bound: the length of a container name.
MaxLen == 3

\* the sequences over chars of length up to n
Strings(chars, n) == UNION {[1..k -> chars] : k \in 0..n}

\* exit statuses of the probe: 0 when it succeeded, 5 when the volume is not
\* found, 1 for another failure, -1 when it failed without an exit status
ExitStatuses == {-1, 0, 1, 5}

\* what the probe may print: white space (a blank, a tab, the newline that
\* ends a line, a no-break space), the thin-pool attribute, another one
Outputs == Strings({" ", "\t", "\n", "U+00A0", "t", "x"}, MaxOutput)

\* container names, with and without hyphens and snapshot delimiters
Names == Strings({"a", "-", SnapshotDelimiter}, MaxLen)

unchangedDriver ==
    UNCHANGED <<lvs, pools, links, dirs, mounts, covered, inside, cfgVg, cfgPool, vgName,
          storageShared,
                faults, nops, calls, overlapped>>

ThinpoolExistsInit ==
    /\ Nothing
    /\ given \in ExitStatuses \X Outputs
    /\ got = None

CallThinpoolExists ==
    /\ got = None
    /\ got' = storageLVMThinpoolExists(given[1], given[2])
    /\ UNCHANGED given
    /\ unchangedDriver

ThinpoolExistsSpec == ThinpoolExistsInit /\ [][CallThinpoolExists]_vars

LVNameInit ==
    /\ Nothing
    /\ given \in Names \X Names
    /\ got = None

CallContainerNameToLVName ==
    /\ got = None
    /\ got' = <<containerNameToLVName(given[1]), containerNameToLVName(given[2])>>
    /\ UNCHANGED given
    /\ unchangedDriver

LVNameSpec == LVNameInit /\ [][CallContainerNameToLVName]_vars
\* ------------------------------------------------------------------------
\* Properties.  A property of an operation is stated of the operation made
\* as a whole in a state in which no call is in flight, under every fault
\* set the run may still suffer.

\* the world w as the next operation finds it
Fresh(w) == [w EXCEPT !.log = <<>>, !.hit = {}, !.ran = {}, !.busy = {}, !.ret = <<>>]

\* the run r made the call what / made it with arg and outcome ok
Called(r, what) == \E i \in 1..Len(r.w.log) : r.w.log[i][1] = what
Did(r, what, arg, ok) == <<what, arg, ok>> \in Range(r.w.log)
Failed(r, what) == \E i \in 1..Len(r.w.log) : r.w.log[i][1] = what /\ ~r.w.log[i][3]

\* P of the world every run of Run that returns nil ends in
Succeeds(Run(_), P(_)) ==
    \A r \in Runs(Run) : r.err = "" => P(r.w)

HasLink(w, name) == LinkOf(name) \in w.links
HasVolume(w, name) == containerNameToLVName(name) \in w.lvs
HasBoth(w, name) == HasLink(w, name) /\ HasVolume(w, name)
HasNeither(w, name) == ~HasLink(w, name) /\ ~HasVolume(w, name)
ImageHasBoth(w, fp) == ImageLinkOf(fp) \in w.links /\ fp \in w.lvs
ImageHasNeither(w, fp) == ImageLinkOf(fp) \notin w.links /\ fp \notin w.lvs

\* C1 as claimed: in every state reached when the operations called have
\* completed, every container, snapshot and image name has a link exactly
\* if it has a backend volume.
C1_LinkIffVolume ==
    Quiet =>
        /\ \A name \in ContainerNames \cup SnapshotNames :
               HasLink(World, name) <=> HasVolume(World, name)
        /\ \A fp \in Fingerprints : ImageLinkOf(fp) \in links <=> fp \in lvs

\* C2: from a state where a name has neither link nor volume, a Create that
\* returns nil followed by a Delete that returns nil leaves no link and no
\* volume for the name.
C2_CreateThenDeleteLeavesNothing ==
    \A name \in ContainerNames :
        HasNeither(World, name) =>
            LET RunCreate(F) == ContainerCreate(World, name, F)
            IN  \A c \in Runs(RunCreate) :
                    c.err = "" =>
                        LET RunDelete(F) == ContainerDelete(Fresh(c.w), name, F)
                        IN  \A d \in RunsLeft(RunDelete, faults + Cardinality(c.w.hit)) :
                                d.err = "" => HasNeither(d.w, name)

\* C2 witness: a state in which a name has neither, its Create returns nil
\* and leaves both, and the Delete that follows returns nil.
C2_Witness ==
    \E name \in ContainerNames :
        /\ Quiet
        /\ HasNeither(World, name)
        /\ \E c \in {ContainerCreate(World, name, {})} :
               /\ c.err = ""
               /\ HasBoth(c.w, name)
               /\ \E d \in {ContainerDelete(Fresh(c.w), name, {})} :
                      d.err = "" /\ HasNeither(d.w, name)

\* C3 as claimed: a Rename of a linked entity that returns nil leaves a link
\* at the well-known path of the new name and none at that of the old name,
\* and for a container the same holds of each listed snapshot under its
\* new name <new>/<suffix>.
C3_RenameMovesTheLink ==
    \A name \in ContainerNames \cup SnapshotNames :
      \A newName \in RenameTargets(name), snaps \in SnapshotLists(name) :
        LET Run(F) == ContainerRename(World, name, newName, snaps, 0, F)
        IN  HasLink(World, name) =>
                Succeeds(Run, LAMBDA w :
                    /\ HasLink(w, newName)
                    /\ ~HasLink(w, name)
                    /\ ~IsSnapshot(name) =>
                           \A i \in 1..Len(snaps) :
                               /\ HasLink(w, newName \o <<SnapshotDelimiter>>
                                                    \o Base(snaps[i]))
                               /\ ~HasLink(w, snaps[i]))

\* a link exists under containers, snapshots or images: a container, snapshot
\* or image name the daemon lists has its link
SomeListedLink ==
    \/ \E name \in Range(ContainersListed) : HasLink(World, name)
    \/ \E fp \in Range(ImagesListed) : ImageLinkOf(fp) \in links

\* both setters, whatever their argument, return the in-use error and leave
\* both stored keys as they are
BothSettersRefuse ==
    /\ \A v \in VgInputs :
           LET Run(F) == storageLVMSetVolumeGroupNameConfig(World, v, F)
           IN  \A r \in Runs(Run) :
                   r.err = InUse /\ r.w.cfgVg = cfgVg /\ r.w.cfgPool = cfgPool
    /\ \A q \in PoolInputs :
           LET Run(F) == storageLVMSetThinPoolNameConfig(World, q, F)
           IN  \A r \in Runs(Run) :
                   r.err = InUse /\ r.w.cfgVg = cfgVg /\ r.w.cfgPool = cfgPool

\* C4 as claimed: in every reachable state with at least one link under
\* containers, snapshots or images both setters fail with the in-use error
\* and leave both stored keys unchanged.
C4_AnyLinkBlocksReconfiguration == SomeListedLink => BothSettersRefuse

\* both setters, whatever their argument, fail and leave both stored keys
\* as they are: with the in-use error when the reads of the check of the
\* users succeed, with the error of that check when one of them fails
BothSettersFail ==
    /\ \A v \in VgInputs :
           LET Run(F) == storageLVMSetVolumeGroupNameConfig(World, v, F)
           IN  \A r \in Runs(Run) :
                   /\ r.err = IF r.w.hit = {} THEN InUse ELSE UsersUnknown
                   /\ r.w.cfgVg = cfgVg /\ r.w.cfgPool = cfgPool
    /\ \A q \in PoolInputs :
           LET Run(F) == storageLVMSetThinPoolNameConfig(World, q, F)
           IN  \A r \in Runs(Run) :
                   /\ r.err = IF r.w.hit = {} THEN InUse ELSE UsersUnknown
                   /\ r.w.cfgVg = cfgVg /\ r.w.cfgPool = cfgPool

\* C4 as amended: in every reachable state in which both stored keys are
\* non-empty and at least one link exists under containers, snapshots or
\* images, both setters fail and leave both stored keys unchanged: with the
\* in-use error, or, when a read of the configuration or of a listing
\* fails in the check of the users, with the error of that check.
C4_ListedLinkBlocksReconfigurationWhenConfigured ==
    (cfgVg # "" /\ cfgPool # "" /\ SomeListedLink) => BothSettersFail

\* C4 witness: both keys are set, the only links are image links, and a
\* setter called with a new value returns the in-use error.
C4_Witness ==
    /\ Quiet
    /\ cfgVg # "" /\ cfgPool # ""
    /\ \E fp \in Range(ImagesListed) : ImageLinkOf(fp) \in links
    /\ \A name \in Range(ContainersListed) : ~HasLink(World, name)
    /\ storageLVMSetVolumeGroupNameConfig(World, "", {}).err = InUse
    /\ storageLVMSetThinPoolNameConfig(World, "pool1", {}).err = InUse

\* C5 as claimed: a Copy from a linked source never synchronizes
\* directories, allocates a thin volume, or starts or stops the destination;
\* a Copy from a source without link always synchronizes directories.
C5_CopyPathBySourceLink ==
    \A name \in ContainerNames, src \in CopySources :
        LET Run(F) == ContainerCopy(World, name, src, F)
        IN  name # src =>
            \A r \in Runs(Run) :
                IF HasLink(World, src)
                THEN /\ ~Called(r, "rsync")
                     /\ ~Called(r, "createThinLV")
                     /\ ~Called(r, "ContainerStart")
                     /\ ~Called(r, "ContainerStop")
                ELSE Did(r, "rsync", Path(src) \o Path(name), TRUE)
                     \/ Did(r, "rsync", Path(src) \o Path(name), FALSE)

\* C5 as amended: a Copy from a linked source never synchronizes
\* directories, allocates a thin volume, or starts or stops the destination;
\* a Copy from a source without link always takes the fallback path (calls
\* Create for the destination) and synchronizes directories from the source
\* path to the destination path exactly if the Create and the start of the
\* destination succeeded; otherwise it returns their error.
C5_CopyPathBySourceLinkOnceStarted ==
    \A name \in ContainerNames, src \in CopySources :
        LET Run(F) == ContainerCopy(World, name, src, F)
        IN  name # src =>
            \A r \in Runs(Run) :
                IF HasLink(World, src)
                THEN /\ ~Called(r, "rsync")
                     /\ ~Called(r, "createThinLV")
                     /\ ~Called(r, "ContainerStart")
                     /\ ~Called(r, "ContainerStop")
                ELSE /\ Called(r, "ContainerCreate")
                     /\ ~Called(r, "createSnapshotLV")
                     /\ Called(r, "rsync") <=> Did(r, "mount", Path(name), TRUE)
                     /\ Called(r, "rsync") =>
                            \/ Did(r, "rsync", Path(src) \o Path(name), TRUE)
                            \/ Did(r, "rsync", Path(src) \o Path(name), FALSE)
                     /\ Called(r, "ContainerStart") <=> Did(r, "symlink", LinkOf(name), TRUE)
                     /\ ~Called(r, "rsync") => r.err # ""

\* C5 witness: a state with a linked source whose Copy returns nil without
\* any call of the fallback, and a source without link whose Copy
\* synchronizes directories.
C5_Witness ==
    \E name \in ContainerNames, src \in CopySources, other \in CopySources :
        /\ Quiet
        /\ name # src /\ name # other
        /\ HasLink(World, src)
        /\ ~HasLink(World, other)
        /\ \E r \in {ContainerCopy(World, name, src, {})} :
               r.err = "" /\ Called(r, "createSnapshotLV") /\ ~Called(r, "rsync")
        /\ \E r \in {ContainerCopy(World, name, other, {})} :
               r.err = "" /\ Did(r, "rsync", Path(other) \o Path(name), TRUE)

\* the run r of a Copy by the fallback allocated the destination's volume
\* and then failed at step what
FallbackFailedAt(r, name, what) ==
    /\ Did(r, "lvcreate-thin", containerNameToLVName(name), TRUE)
    /\ Did(r, "mkfs", containerNameToLVName(name), TRUE)
    /\ Failed(r, what)

\* C6 as claimed: in the fallback of Copy, whenever directory or link
\* creation, start, directory synchronization or stop fails after the
\* destination's volume was allocated, Delete is called on the destination
\* and the failed Copy leaves neither volume nor link of the destination.
C6_FallbackFailureDeletesDestination ==
    \A name \in ContainerNames, src \in CopySources :
        LET Run(F) == ContainerCopy(World, name, src, F)
        IN  (name # src /\ ~HasLink(World, src)) =>
            \A r \in Runs(Run) :
                (\E what \in {"mkdir", "symlink", "mount", "rsync", "umount"} :
                     FallbackFailedAt(r, name, what)) =>
                    /\ r.err # ""
                    /\ Called(r, "ContainerDelete")
                    /\ HasNeither(r.w, name)

\* C7 as claimed: when the remap of an unprivileged CreateFromImage fails,
\* the operation unmounts the container path, deletes the container, so that
\* its volume and link are gone, and returns the remap error.
C7_ShiftFailureRollsBack ==
    \A name \in ContainerNames, fp \in Fingerprints :
        LET Run(F) == ContainerCreateFromImage(World, name, FALSE, fp, F)
        IN  \A r \in Runs(Run) :
                Failed(r, "shiftRootfs") =>
                    /\ Did(r, "umount", Path(name), TRUE)
                    /\ Called(r, "ContainerDelete")
                    /\ HasNeither(r.w, name)
                    /\ r.err = "Error in shiftRootfs"

\* the run r of CreateFromImage for name mounted the clone and, if the
\* container is unprivileged, remapped it
MountedAndShifted(r, name, privileged) ==
    /\ Did(r, "mount", Path(name), TRUE)
    /\ privileged \/ Did(r, "shiftRootfs", name, TRUE)

\* C8 as claimed: once mount and remap have succeeded the template hook is
\* called and then the unmount, whatever the hook returned; the operation
\* returns an error exactly if the unmount fails.
C8_OutcomeDecidedByUnmountAlone ==
    \A name \in ContainerNames, privileged \in BOOLEAN, fp \in Fingerprints :
        LET Run(F) == ContainerCreateFromImage(World, name, privileged, fp, F)
        IN  \A r \in Runs(Run) :
                MountedAndShifted(r, name, privileged) =>
                    /\ Called(r, "template-create")
                    /\ Called(r, "umount")
                    /\ r.err # "" <=> Failed(r, "umount")

\* the run r made the call what, with the outcome ok, at a directory that
\* ioutil.TempDir made below images
DidAtTemp(r, what, ok) ==
    \E i \in 1..Len(TempNames) :
        Did(r, what, VarDir("images") \o <<"/", TempNames[i]>>, ok)

\* C9 as claimed: with the volume group present and no pool configured, the
\* first CreateFromImage for a fingerprint, no step failing, creates the
\* default pool, stores its name, allocates the volume named by the
\* fingerprint, links, mounts, unpacks and unmounts it, and clones the
\* container's volume from it; a CreateFromImage for a fingerprint that is
\* linked creates no pool and allocates no thin volume.
C9_FirstUseMaterializesImage ==
    \A name \in ContainerNames, privileged \in BOOLEAN, fp \in Fingerprints :
        \A r \in {ContainerCreateFromImage(World, name, privileged, fp, {})} :
            /\ (/\ Quiet
                /\ vgName \in ExistingVGs /\ cfgVg = vgName /\ cfgPool = ""
                /\ pools = {}
                /\ ImageHasNeither(World, fp)
                /\ HasNeither(World, name)) =>
                   /\ Did(r, "lvcreate-thinpool", <<storageLvmDefaultThinPoolName>>, TRUE)
                   /\ r.w.cfgPool = storageLvmDefaultThinPoolName
                   /\ Did(r, "lvcreate-thin", fp, TRUE)
                   /\ ImageHasBoth(r.w, fp)
                   /\ DidAtTemp(r, "mount", TRUE)
                   /\ Called(r, "untar")
                   /\ DidAtTemp(r, "umount", TRUE)
                   /\ Did(r, "lvcreate-snapshot", containerNameToLVName(name), TRUE)
                   /\ r.err = ""
            /\ ImageLinkOf(fp) \in links =>
                   /\ ~Called(r, "lvcreate-thinpool")
                   /\ ~Called(r, "lvcreate-thin")

\* the run r of a Restore for name removed the volume / tried to clone
RestoreRemoved(r, name) == Did(r, "lvremove", containerNameToLVName(name), TRUE)
RestoreCloneTried(r) == Called(r, "createSnapshotLV")

\* C10 as claimed: in Restore, if the removal succeeds and the clone then
\* fails, an error is returned and the destination has no volume; if the
\* removal fails the clone is never attempted and an error is returned.
C10_RestoreCloneFailureLeavesNoVolume ==
    \A name \in ContainerNames, src \in SnapshotNames :
        LET Run(F) == ContainerRestore(World, name, src, F)
        IN  \A r \in Runs(Run) :
                /\ (RestoreRemoved(r, name) /\ r.err # "") => ~HasVolume(r.w, name)
                /\ ~RestoreRemoved(r, name) => (~RestoreCloneTried(r) /\ r.err # "")

\* C10 as amended: in Restore, if the removal succeeds and the creation of
\* the clone then fails, an error is returned and the destination has no
\* volume; if the clone is created and its activation fails, an error is
\* returned and the destination has the new volume; if the removal fails the
\* clone is never attempted, an error is returned and the volumes are as
\* before.
C10_RestoreCloneCreationFailureLeavesNoVolume ==
    \A name \in ContainerNames, src \in SnapshotNames :
        LET Run(F) == ContainerRestore(World, name, src, F)
        IN  \A r \in Runs(Run) :
                /\ (RestoreRemoved(r, name) /\ Failed(r, "lvcreate-snapshot")) =>
                       (r.err = "Error creating snapshot LV" /\ ~HasVolume(r.w, name))
                /\ (RestoreRemoved(r, name) /\ Failed(r, "lvchange-rw")) =>
                       (r.err = "Error creating snapshot LV" /\ HasVolume(r.w, name))
                /\ ~RestoreRemoved(r, name) =>
                       /\ ~RestoreCloneTried(r)
                       /\ r.err = "Error removing LV about to be restored over"
                       /\ r.w.lvs = lvs

\* C10 witness: a container and a snapshot with volumes; a Restore whose
\* clone cannot be created leaves the container without volume, and a
\* Restore whose removal fails attempts no clone.
C10_Witness ==
    \E name \in ContainerNames, src \in SnapshotNames :
        /\ Quiet
        /\ faults = 0
        /\ HasVolume(World, name)
        /\ HasVolume(World, src)
        /\ \E r \in {ContainerRestore(World, name, src, {738})} :
               /\ RestoreRemoved(r, name)
               /\ Failed(r, "lvcreate-snapshot")
               /\ r.err # ""
               /\ ~HasVolume(r.w, name)
        /\ \E r \in {ContainerRestore(World, name, src, {728})} :
               /\ ~RestoreCloneTried(r)
               /\ r.err # ""
               /\ HasVolume(r.w, name)

\* the overlay volume of a snapshot
OverlayOf(name) == containerNameToLVName(OverlayName(name))

\* the call what was made in run r before the call then
Before(r, what, then) ==
    \E i, j \in 1..Len(r.w.log) :
        i < j /\ r.w.log[i][1] = what /\ r.w.log[j][1] = then

\* SnapshotStart that returns nil has created the overlay volume, named by
\* the mapping of <S>/rw, and mounted it on top at the snapshot's path
StartMountsOverlay(name) ==
    LET Run(F) == ContainerSnapshotStart(World, name, F)
    IN  \A r \in Runs(Run) :
            r.err = "" =>
                /\ OverlayOf(name) \notin lvs
                /\ r.w.lvs = lvs \cup {OverlayOf(name)}
                /\ OverlayOf(name) = containerNameToLVName(name) \o <<"-", "rw">>
                /\ r.w.mounts = Append(mounts, <<Path(name), OverlayOf(name)>>)

\* SnapshotStop that returns nil after a SnapshotStart that returned nil has
\* unmounted the path and then removed the overlay volume and no other
StopAfterStartRemovesOverlay(name) ==
    LET RunStart(F) == ContainerSnapshotStart(World, name, F)
    IN  \A st \in Runs(RunStart) :
            st.err = "" =>
                LET RunStop(F) == ContainerSnapshotStop(Fresh(st.w), name, F)
                IN  \A r \in RunsLeft(RunStop, faults + Cardinality(st.w.hit)) :
                        r.err = "" =>
                            /\ Before(r, "umount", "lvremove")
                            /\ r.w.lvs = lvs
                            /\ r.w.mounts = mounts

\* C11 as claimed: SnapshotStart creates the overlay volume named by the
\* mapping of <S>/rw and mounts it at the snapshot's path; SnapshotStop
\* unmounts and then removes exactly that volume; a SnapshotStop with no
\* SnapshotStart before it (no overlay volume, path not mounted) fails with
\* the backend failure of removing the overlay volume.
C11_StopWithoutStartFailsAtRemoval ==
    \A name \in SnapshotNames :
        /\ StartMountsOverlay(name)
        /\ StopAfterStartRemovesOverlay(name)
        /\ (OverlayOf(name) \notin lvs /\ ~IsMounted(World, Path(name))) =>
               LET Run(F) == ContainerSnapshotStop(World, name, F)
               IN  \A r \in Runs(Run) :
                       /\ Did(r, "lvremove", OverlayOf(name), FALSE)
                       /\ r.err = "Could not remove LV"

\* C11 as amended: SnapshotStart creates the overlay volume named by the
\* mapping of <S>/rw and mounts it at the snapshot's path; SnapshotStop
\* unmounts and then removes exactly that volume; a SnapshotStop with no
\* SnapshotStart before it (path not mounted) fails with the failure of the
\* unmount, never attempts the removal and leaves the volumes as they are.
C11_StopWithoutStartFailsAtUnmount ==
    \A name \in SnapshotNames :
        /\ StartMountsOverlay(name)
        /\ StopAfterStartRemovesOverlay(name)
        /\ ~IsMounted(World, Path(name)) =>
               LET Run(F) == ContainerSnapshotStop(World, name, F)
               IN  \A r \in Runs(Run) :
                       /\ Did(r, "umount", Path(name), FALSE)
                       /\ ~Called(r, "lvremove")
                       /\ r.err = "failed to unmount container path"
                       /\ r.w.lvs = lvs

\* C11 witness: a snapshot with a volume, no overlay and nothing mounted;
\* its SnapshotStart returns nil, the SnapshotStop after it returns nil and
\* leaves no overlay, and a SnapshotStop made instead fails at the unmount.
C11_Witness ==
    \E name \in SnapshotNames :
        /\ Quiet
        /\ HasVolume(World, name)
        /\ OverlayOf(name) \notin lvs
        /\ ~IsMounted(World, Path(name))
        /\ \E st \in {ContainerSnapshotStart(World, name, {})} :
               /\ st.err = ""
               /\ OverlayOf(name) \in st.w.lvs
               /\ \E r \in {ContainerSnapshotStop(Fresh(st.w), name, {})} :
                      r.err = "" /\ OverlayOf(name) \notin r.w.lvs
        /\ \E r \in {ContainerSnapshotStop(World, name, {})} :
               r.err # "" /\ ~Called(r, "lvremove")

\* the calls of ContainerRename made in run r, as <<name, new name>> arguments
RenameCalls(r) ==
    LET made == SelectSeq(r.w.log, LAMBDA e : e[1] = "ContainerRename")
    IN  [i \in 1..Len(made) |-> made[i][2]]

\* C12 as claimed: a Rename of a container that is no snapshot, listing the
\* snapshots snaps, that returns nil has made after its own call exactly one
\* nested call per listed snapshot, the i-th for snaps[i] with the new name
\* <new>/<suffix of snaps[i]>, <new> the new name as it was passed in; a
\* Rename of a snapshot makes no nested call.
C12_NestedRenamesUseTheNewName ==
    \A name \in ContainerNames \cup SnapshotNames :
      \A newName \in RenameTargets(name), snaps \in SnapshotLists(name) :
        LET Run(F) == ContainerRename(World, name, newName, snaps, 0, F)
        IN  \A r \in Runs(Run) :
                /\ IsSnapshot(name) => Len(RenameCalls(r)) = 1
                /\ (~IsSnapshot(name) /\ r.err = "") =>
                       /\ Len(RenameCalls(r)) = 1 + Len(snaps)
                       /\ \A i \in 1..Len(snaps) :
                              RenameCalls(r)[i + 1] =
                                  snaps[i] \o <<"->">> \o newName
                                      \o <<SnapshotDelimiter>> \o Base(snaps[i])

\* the volume-group name Init resolves: the override when one is given, the
\* stored configuration otherwise
ResolvedVg(config) == IF config = <<>> THEN cfgVg ELSE config[1]

\* C13 as claimed: Init binds the driver to the override when one is given
\* and to the stored volume-group name otherwise; it fails when the name so
\* resolved is empty; and either way it returns nil only after the resolved
\* volume group was verified to exist, so that a nonexistent or empty
\* override makes it fail.
C13_InitVerifiesTheResolvedVolumeGroup ==
    \A config \in InitConfigs :
        LET Run(F) == DriverInit(World, config, F)
        IN  \A r \in Runs(Run) :
                /\ r.err = "" =>
                       /\ r.w.vgName = ResolvedVg(config)
                       /\ ResolvedVg(config) \in ExistingVGs
                       /\ Did(r, "vgdisplay", <<ResolvedVg(config)>>, TRUE)
                /\ ResolvedVg(config) = "" => r.err # ""

\* the config-set calls of run r
ConfigWrites(r) == SelectSeq(r.w.log, LAMBDA e : e[1] = "config-set")

\* a setter's run r for the key with the value: on failure both stored keys
\* are as they were; on success the one key was written, once, and holds
\* the value, and the other key is as it was
SetterFrame(r, key, value) ==
    /\ r.err # "" => r.w.cfgVg = cfgVg /\ r.w.cfgPool = cfgPool
    /\ r.err = "" =>
           /\ ConfigWrites(r) = << <<"config-set", <<key, value>>, TRUE>> >>
           /\ IF key = "storage.lvm_vg_name"
              THEN r.w.cfgVg = value /\ r.w.cfgPool = cfgPool
              ELSE r.w.cfgPool = value /\ r.w.cfgVg = cfgVg

\* SetVolumeGroupName with a non-empty name returns nil only if the volume
\* group was checked and exists
VgSetterChecks ==
    \A v \in VgInputs :
        LET Run(F) == storageLVMSetVolumeGroupNameConfig(World, v, F)
        IN  \A r \in Runs(Run) :
                /\ SetterFrame(r, "storage.lvm_vg_name", v)
                /\ (v # "" /\ r.err = "") =>
                       v \in ExistingVGs /\ Did(r, "vgdisplay", <<v>>, TRUE)

\* SetThinPoolName with a non-empty name returns nil only if a volume group
\* is configured and the pool was probed and exists in it
PoolSetterChecks ==
    \A p \in PoolInputs :
        LET Run(F) == storageLVMSetThinPoolNameConfig(World, p, F)
        IN  \A r \in Runs(Run) :
                /\ SetterFrame(r, "storage.lvm_thinpool_name", p)
                /\ (p # "" /\ r.err = "") =>
                       /\ cfgVg # ""
                       /\ Did(r, "vgs", <<cfgVg, p>>, TRUE)
                       /\ cfgVg \in ExistingVGs /\ p \in pools

\* C14 as claimed: SetThinPoolName fails, whatever its argument (the empty
\* name included), when no volume group is configured; with a non-empty name
\* it fails unless the pool is found to exist; SetVolumeGroupName with a
\* non-empty name fails unless the volume group is found to exist; a setter
\* that fails leaves the stored configuration as it was and one that
\* succeeds writes its own key and nothing else.
C14_PoolNameNeedsVolumeGroupWhateverTheName ==
    /\ VgSetterChecks
    /\ PoolSetterChecks
    /\ \A p \in PoolInputs :
           LET Run(F) == storageLVMSetThinPoolNameConfig(World, p, F)
           IN  \A r \in Runs(Run) : cfgVg = "" => r.err # ""

\* C14 as amended: SetThinPoolName with a non-empty name fails when no
\* volume group is configured and unless the pool is found to exist (the
\* empty name is written without a volume group); SetVolumeGroupName with a
\* non-empty name fails unless the volume group is found to exist; a setter
\* that fails leaves the stored configuration as it was and one that
\* succeeds writes its own key and nothing else.
C14_NonEmptyPoolNameNeedsVolumeGroup ==
    /\ VgSetterChecks
    /\ PoolSetterChecks
    /\ \A p \in PoolInputs \ {""} :
           LET Run(F) == storageLVMSetThinPoolNameConfig(World, p, F)
           IN  \A r \in Runs(Run) : cfgVg = "" => r.err # ""

\* C14 witness: no volume group is configured and nothing is in use; setting
\* the empty pool name returns nil, setting a non-empty one fails for want
\* of a volume group, and setting an existing volume group writes its key.
C14_Witness ==
    /\ Quiet
    /\ cfgVg = ""
    /\ storageLVMGetThinPoolUsers(World, {}).users = <<>>
    /\ faults = 0
    /\ \E r \in {storageLVMSetThinPoolNameConfig(World, "", {})} :
           r.err = "" /\ Len(ConfigWrites(r)) = 1
    /\ \E r \in {storageLVMSetThinPoolNameConfig(World, "pool1", {})} :
           r.err = "Can not set lvm_thinpool_name without lvm_vg_name set."
    /\ \E r \in {storageLVMSetVolumeGroupNameConfig(World, "vg0", {})} :
           r.err = "" /\ r.w.cfgVg = "vg0"
    /\ \E r \in {storageLVMSetVolumeGroupNameConfig(World, "vg1", {23})} :
           r.err # "" /\ r.w.cfgVg = ""

\* the listed container and snapshot names that have their link record,
\* containers/<name>.lv for a container and snapshots/<name>.lv for a
\* snapshot, in the order of the listing
LinkedContainers ==
    SelectSeq(ContainersListed, LAMBDA n :
        (IF Contains(n, "/") THEN <<"/", "snapshots", "/">> ELSE <<"/", "containers", "/">>)
            \o n \o <<".lv">> \in links)

\* the listed image names that have their link record images/<name>.lv
LinkedImages ==
    SelectSeq(ImagesListed, LAMBDA fp : <<"/", "images", "/">> \o fp \o <<".lv">> \in links)

\* C15 as claimed: the list of names in use is empty whenever the stored
\* volume-group name or the stored pool name is empty, whatever links exist;
\* otherwise it holds exactly the listed container and snapshot names that
\* have their link record and the listed image names that have theirs.
C15_InUseNamesAreExactlyTheLinkedListedNames ==
    LET Run(F) == storageLVMGetThinPoolUsers(World, F)
    IN  \A u \in Runs(Run) :
            /\ (cfgVg = "" \/ cfgPool = "") => u.users = <<>>
            /\ (cfgVg # "" /\ cfgPool # "") =>
                   u.users = LinkedContainers \o LinkedImages

\* C15 as amended: the list of names in use is empty whenever the stored
\* volume-group name or the stored pool name is empty, whatever links exist;
\* otherwise, when the reads of the stored configuration and of the two
\* listings succeed, it holds exactly the listed container and snapshot
\* names that have their link record, in the order of the listing, followed
\* by the listed image names that have theirs, and no error is returned;
\* when one of the reads fails an error is returned, and the list beside it
\* is empty or, when the listing of the images failed, holds the linked
\* container and snapshot names only.
C15_InUseNamesAreTheLinkedListedNames ==
    LET Run(F) == storageLVMGetThinPoolUsers(World, F)
    IN  \A u \in Runs(Run) :
            /\ (cfgVg = "" \/ cfgPool = "") => u.users = <<>>
            /\ (cfgVg # "" /\ cfgPool # "" /\ u.err = "") =>
                   u.users = LinkedContainers \o LinkedImages
            /\ u.err # "" =>
                   u.users = IF 87 \in u.w.hit THEN LinkedContainers ELSE <<>>
            /\ u.err # "" <=> u.w.hit # {}

\* C15 witness: both keys are stored, a container and an image have their
\* links; the list holds them when the reads succeed, and holds the
\* container without the image beside the error of a listing of the images
\* that fails.
C15_Witness ==
    /\ Quiet
    /\ faults < MaxFaults
    /\ cfgVg # "" /\ cfgPool # ""
    /\ \E u \in {storageLVMGetThinPoolUsers(World, {})} :
           /\ u.err = ""
           /\ \E c \in ContainerNames : c \in Range(u.users)
           /\ \E n \in Fingerprints : n \in Range(u.users)
    /\ \E u \in {storageLVMGetThinPoolUsers(World, {87})} :
           /\ u.err # ""
           /\ u.users = LinkedContainers
           /\ u.users # <<>>

\* what the probe printed has t as its first character that is no white
\* space
AttrsStartWithT(output) ==
    \E i \in 1..Len(output) :
        output[i] = "t" /\ \A j \in 1..(i - 1) : output[j] \in WhiteSpace

\* C16: storageLVMThinpoolExists has three outcomes: (false, nil) when the
\* probe exits with status 5; (true, nil) when the probe succeeds and the
\* attributes start with t; an error, never a plain false, when the probe
\* succeeds and the attributes do not start with t and when the probe fails
\* otherwise than with exit status 5.
C16_ThinpoolExistsThreeOutcomes ==
    got # None =>
        LET exit == given[1]
            output == given[2]
        IN  /\ exit = 5 => got = [exists |-> FALSE, err |-> ""]
            /\ (exit = 0 /\ AttrsStartWithT(output)) => got = [exists |-> TRUE, err |-> ""]
            /\ (exit = 0 /\ ~AttrsStartWithT(output)) => got.err # ""
            /\ exit \notin {0, 5} => got.err # ""
            /\ got.err # "" => ~got.exists

\* C16 witness: the probe succeeded, printed attributes that do not start
\* with t after white space, and the function returned an error.
C16_Witness ==
    /\ got # None
    /\ given[1] = 0
    /\ given[2] = <<"\t", "x", "t">>
    /\ got.err # ""

\* C17: containerNameToLVName is injective on the names that hold no
\* snapshot delimiter: two such names with the same volume name are equal.
C17_LVNameInjectiveWithoutDelimiter ==
    (/\ got # None
     /\ ~Contains(given[1], SnapshotDelimiter)
     /\ ~Contains(given[2], SnapshotDelimiter)
     /\ got[1] = got[2]) => given[1] = given[2]

\* C17 witness: two different names without delimiter that differ only in
\* their hyphens were mapped, to different volume names.
C17_Witness ==
    /\ got # None
    /\ given[1] = <<"a", "-", "-">>
    /\ given[2] = <<"a", "-">>
    /\ got[1] # got[2]

\* the runs of the operations that allocate a thin volume, made in the
\* current state
AllocationRuns ==
    UNION {LET Run(F) == ContainerCreate(World, name, F) IN Runs(Run) :
               name \in ContainerNames}
    \cup UNION {LET Run(F) == ImageCreate(World, fp, F) IN Runs(Run) : fp \in Fingerprints}
    \cup UNION {LET Run(F) == ContainerCopy(World, pair[1], pair[2], F) IN Runs(Run) :
                    pair \in {q \in ContainerNames \X CopySources : q[1] # q[2]}}

\* the position of the first call what in the run r, 0 if there is none
FirstCall(r, what) ==
    IF Called(r, what)
    THEN CHOOSE i \in 1..Len(r.w.log) :
             /\ r.w.log[i][1] = what
             /\ \A j \in 1..(i - 1) : r.w.log[j][1] # what
    ELSE 0

\* the pool creation is issued only when no pool name is stored, and the
\* stored pool name is written only after a pool creation that succeeded,
\* with the name of that pool; the pool is created at most once
PoolBootstrap(r) ==
    /\ Called(r, "lvcreate-thinpool") => cfgPool = ""
    /\ Called(r, "config-set") =>
           /\ Did(r, "lvcreate-thinpool", <<storageLvmDefaultThinPoolName>>, TRUE)
           /\ FirstCall(r, "lvcreate-thinpool") < FirstCall(r, "config-set")
           /\ r.w.log[FirstCall(r, "config-set")][2] =
                  <<"storage.lvm_thinpool_name", storageLvmDefaultThinPoolName>>
    /\ r.w.cfgPool # cfgPool => Did(r, "config-set",
           <<"storage.lvm_thinpool_name", storageLvmDefaultThinPoolName>>, TRUE)
    /\ storageLvmDefaultThinPoolName \in pools =>
           ~Did(r, "lvcreate-thinpool", <<storageLvmDefaultThinPoolName>>, TRUE)

\* C18 as claimed: with the stored configuration left to the driver, an
\* allocation issues the pool creation only when no pool name is stored,
\* the name is stored only after a pool creation that succeeded, and once
\* the pool has been created no allocation issues the pool creation again.
C18_NoPoolCreationAfterThePoolExists ==
    \A r \in AllocationRuns :
        /\ PoolBootstrap(r)
        /\ storageLvmDefaultThinPoolName \in pools => ~Called(r, "lvcreate-thinpool")

\* C18 as amended: with the stored configuration left to the driver, an
\* allocation issues the pool creation only when no pool name is stored,
\* the name is stored only after a pool creation that succeeded, the pool
\* is created at most once, and once its name has been stored no allocation
\* issues the pool creation again nor changes the stored name.
C18_NoPoolCreationAfterTheNameIsStored ==
    \A r \in AllocationRuns :
        /\ PoolBootstrap(r)
        /\ cfgPool # "" =>
               /\ storageLvmDefaultThinPoolName \in pools
               /\ ~Called(r, "lvcreate-thinpool")
               /\ r.w.cfgPool = cfgPool

\* C18 witness: nothing is stored and no pool exists; a Create makes the
\* pool and stores its name, and the Create after it issues no pool
\* creation; a Create whose write of the name fails leaves the pool without
\* a stored name, and the Create after it issues the pool creation again.
C18_Witness ==
    /\ Quiet
    /\ cfgPool = ""
    /\ pools = {}
    /\ faults = 0
    /\ \E r \in {ContainerCreate(World, <<"a">>, {})} :
           /\ r.err = ""
           /\ r.w.cfgPool = storageLvmDefaultThinPoolName
           /\ r.w.pools = {storageLvmDefaultThinPoolName}
           /\ \E n \in {ContainerCreate(Fresh(r.w), <<"b", "-", "c">>, {})} :
                  n.err = "" /\ ~Called(n, "lvcreate-thinpool")
    /\ \E r \in {ContainerCreate(World, <<"a">>, {130})} :
           /\ r.err # ""
           /\ r.w.cfgPool = ""
           /\ r.w.pools = {storageLvmDefaultThinPoolName}
           /\ \E n \in {ContainerCreate(Fresh(r.w), <<"a">>, {})} :
                  Did(n, "lvcreate-thinpool", <<storageLvmDefaultThinPoolName>>, FALSE)

\* the external calls of run r, in order, as <<call, argument>>
ExternalCalls(r) ==
    LET made == SelectSeq(r.w.log, LAMBDA e : e[1] # "ContainerDelete")
    IN  [i \in 1..Len(made) |-> <<made[i][1], made[i][2]>>]

\* the three steps of Delete for a name, in their order
DeleteSteps(name) ==
    << <<"lvremove", containerNameToLVName(name)>>,
       <<"remove", LinkOf(name)>>,
       <<"removeall", Path(name)>> >>

\* C19: Delete removes the volume, then the link, then the directory tree,
\* and stops at the first step that fails: if the volume removal fails the
\* link and the directory are untouched and an error is returned; if the
\* link removal fails the directory is untouched; if the directory removal
\* fails an error is returned and the volume and the link stay removed
\* (a removal of the tree that fails has removed nothing but entries below
\* the directory, and made nothing).
C19_DeleteStopsAtFirstFailure ==
    \A name \in ContainerNames :
        LET Run(F) == ContainerDelete(World, name, F)
            lv == containerNameToLVName(name)
        IN  \A r \in Runs(Run) :
                LET n == Len(ExternalCalls(r))
                IN  /\ n \in 1..3
                    /\ ExternalCalls(r) = SubSeq(DeleteSteps(name), 1, n)
                    /\ r.err = "" <=> (n = 3 /\ ~Failed(r, "removeall"))
                    /\ Failed(r, "lvremove") =>
                           /\ n = 1
                           /\ r.w.lvs = lvs /\ r.w.links = links /\ r.w.dirs = dirs
                    /\ Failed(r, "remove") =>
                           /\ n = 2
                           /\ r.w.lvs = lvs \ {lv} /\ r.w.links = links /\ r.w.dirs = dirs
                    /\ Failed(r, "removeall") =>
                           /\ n = 3
                           /\ r.w.lvs = lvs \ {lv}
                           /\ r.w.links \subseteq links \ {LinkOf(name)}
                           /\ r.w.dirs \subseteq dirs
                           /\ Path(name) \in dirs => Path(name) \in r.w.dirs
                           /\ \A x \in (links \ {LinkOf(name)}) \cup dirs :
                                  x \notin r.w.links \cup r.w.dirs
                                      => Below(Path(name), x)

\* C19 witness: a container with volume, link and directory, whose Delete
\* fails at the volume removal, at the link removal or at the directory
\* removal according to the step that is made to fail.
C19_Witness ==
    \E name \in ContainerNames :
        /\ Quiet
        /\ HasBoth(World, name)
        /\ Path(name) \in dirs
        /\ faults = 0
        /\ \E r \in {ContainerDelete(World, name, {728})} :
               r.err # "" /\ HasBoth(r.w, name)
        /\ \E r \in {ContainerDelete(World, name, {311})} :
               r.err # "" /\ ~HasVolume(r.w, name) /\ HasLink(r.w, name)
        /\ \E r \in {ContainerDelete(World, name, {316})} :
               r.err # "" /\ HasNeither(r.w, name) /\ Path(name) \in r.w.dirs

\* the new name the i-th listed snapshot is to have after the rename to newName
NewSnapshotName(newName, snaps, i) ==
    newName \o <<SnapshotDelimiter>> \o Base(snaps[i])

\* C20 as claimed: when the Rename of a container that is no snapshot fails
\* in the nested rename of its k-th listed snapshot, it returns an error at
\* once: the snapshots after the k-th are not attempted and are as they
\* were, while the container's volume and link and those of the first k-1
\* snapshots are under their new names and no longer under the old ones.
C20_NestedFailureKeepsEarlierRenames ==
    \A name \in ContainerNames :
      \A newName \in RenameTargets(name), snaps \in SnapshotLists(name) :
        LET Run(F) == ContainerRename(World, name, newName, snaps, 0, F)
        IN  \A r \in Runs(Run) :
              \A k \in 1..Len(snaps) :
                (r.err # "" /\ Len(RenameCalls(r)) = 1 + k) =>
                    /\ HasBoth(r.w, newName)
                    /\ HasNeither(r.w, name)
                    /\ \A i \in 1..(k - 1) :
                           /\ HasBoth(r.w, NewSnapshotName(newName, snaps, i))
                           /\ HasNeither(r.w, snaps[i])
                    /\ \A i \in (k + 1)..Len(snaps) :
                           /\ HasVolume(r.w, snaps[i]) = HasVolume(World, snaps[i])
                           /\ HasLink(r.w, snaps[i]) = HasLink(World, snaps[i])

\* the outcome of the only call what of run r
Outcome(r, what) ==
    LET i == FirstCall(r, what) IN r.w.log[i][3]

\* C21: in ImageCreate, once the volume is mounted, the unpacking is
\* followed by the unmount whatever its outcome, and the result is decided
\* by the two outcomes: nil when both succeed, the error of the unpacking
\* when it alone fails, the error of the unmount when it alone fails, and an
\* error built around that of the unpacking when both fail.
C21_ImageCreateErrorPrecedence ==
    \A fp \in Fingerprints :
        LET Run(F) == ImageCreate(World, fp, F)
        IN  \A r \in Runs(Run) :
                DidAtTemp(r, "mount", TRUE) =>
                    /\ Called(r, "untar")
                    /\ Called(r, "umount")
                    /\ FirstCall(r, "untar") < FirstCall(r, "umount")
                    /\ r.err =
                           IF Outcome(r, "untar")
                           THEN IF Outcome(r, "umount") THEN "" ELSE "unmount failed"
                           ELSE IF Outcome(r, "umount") THEN "untar failed"
                                ELSE "Error unmounting during cleanup of untar error"

\* C21 witness: an image that can be created, whose ImageCreate ends in each
\* of the four ways according to the unpacking and the unmount made to fail.
C21_Witness ==
    \E fp \in Fingerprints :
        /\ Quiet
        /\ faults = 0
        /\ \E r \in {ImageCreate(World, fp, {})} :
               r.err = "" /\ DidAtTemp(r, "umount", TRUE)
        /\ \E r \in {ImageCreate(World, fp, {626})} :
               r.err = "untar failed" /\ DidAtTemp(r, "umount", TRUE)
        /\ \E r \in {ImageCreate(World, fp, {628})} :
               r.err = "unmount failed" /\ Did(r, "untar", VarPath("images", fp), TRUE)
        /\ \E r \in {ImageCreate(World, fp, {626, 628})} :
               /\ r.err = "Error unmounting during cleanup of untar error"
               /\ DidAtTemp(r, "umount", FALSE)

\* the run r of a setter changed the stored configuration
Changed(r) == r.w.cfgVg # cfgVg \/ r.w.cfgPool # cfgPool

\* the runs of the setters made as a whole in the current state
SetterRuns ==
    UNION {LET Run(F) == storageLVMSetVolumeGroupNameConfig(World, v, F) IN Runs(Run) :
               v \in VgInputs}
    \cup UNION {LET Run(F) == storageLVMSetThinPoolNameConfig(World, q, F) IN Runs(Run) :
                    q \in PoolInputs}

\* the calls of the setters in flight that have made their checks: their
\* next step writes the key and changes the stored configuration
Committing ==
    {c \in BagToSet(calls) :
        /\ c.op \in {"SetVolumeGroupName", "SetThinPoolName"}
        /\ \E r \in {RunCall(c.op, c.param, StepWorld(c.trace, FALSE), {})} : Changed(r)}

\* C22 as claimed: a setter changes the stored configuration while a link
\* exists only when calls have been in flight together: with the operations
\* one at a time no setter changes the stored configuration while a link
\* exists, and a setter about to write its key while a link exists has run
\* beside another call.
C22_OneAtATimeNoChangeWhileALinkExists ==
    /\ ~overlapped => \A r \in SetterRuns : Changed(r) => ~SomeListedLink
    /\ (Committing # {} /\ SomeListedLink) => overlapped

\* C22 as amended: a setter changes the stored configuration while both
\* keys are stored and a link exists only when calls have been in flight
\* together: with the operations one at a time no setter changes the stored
\* configuration while both keys are stored and a link exists, and a setter
\* about to write its key in such a state has run beside another call.
C22_OneAtATimeNoChangeWhileConfiguredAndLinked ==
    /\ ~overlapped =>
           \A r \in SetterRuns :
               Changed(r) => ~(cfgVg # "" /\ cfgPool # "" /\ SomeListedLink)
    /\ (Committing # {} /\ cfgVg # "" /\ cfgPool # "" /\ SomeListedLink) => overlapped

\* C22 witness: a setter in flight has made its checks and a call that
\* creates a consumer has run beside it and completed: both keys are
\* stored, a listed name has its link, and the setter's next step writes its
\* key and changes the stored configuration.
C22_Witness ==
    /\ overlapped
    /\ BagCardinality(calls) = 1
    /\ Committing # {}
    /\ cfgVg # "" /\ cfgPool # ""
    /\ SomeListedLink

\* the runs, made in the current state, of the operations that remove a volume
RemovalRuns ==
    UNION {LET Run(F) == ContainerDelete(World, name, F) IN Runs(Run) :
               name \in ContainerNames}
    \cup UNION {LET Run(F) == ImageDelete(World, fp, F) IN Runs(Run) : fp \in Fingerprints}
    \cup UNION {LET Run(F) == ContainerCreateFromImage(World, c[1], c[2], c[3], F)
                IN  Runs(Run) : c \in ContainerNames \X BOOLEAN \X Fingerprints}
    \cup UNION {LET Run(F) == ContainerCopy(World, pair[1], pair[2], F) IN Runs(Run) :
                    pair \in {q \in ContainerNames \X CopySources : q[1] # q[2]}}
    \cup UNION {LET Run(F) == ContainerRestore(World, pair[1], pair[2], F) IN Runs(Run) :
                    pair \in ContainerNames \X SnapshotNames}
    \cup UNION {LET Run(F) == ContainerSnapshotDelete(World, name, F) IN Runs(Run) :
                    name \in SnapshotNames}
    \cup UNION {LET Run(F) == ContainerSnapshotStop(World, name, F) IN Runs(Run) :
                    name \in SnapshotNames}

\* C23 as claimed: no operation of the driver issues the removal of a volume
\* that is mounted at that moment: on every path, the rollbacks of
\* ContainerCreateFromImage and ContainerCopy and the teardown of
\* ContainerSnapshotStop included, what the operation mounted has been
\* unmounted before the removal is attempted.
C23_NoRemovalOfAMountedVolume ==
    \A r \in RemovalRuns : r.w.busy = {}

====
